---------------------------- MODULE Spec2Model ----------------------------
(***************************************************************************)
(* Port intelligence core of mari8x-community: the congestion classifier  *)
(* (congestion/engine), the pre-arrival predictor (agent/pre-arrival),    *)
(* the alert engine (agent/alerts), the agent registry (agent/onboarding) *)
(* and the REST handlers and the periodic sweep of the server (main).     *)
(*                                                                         *)
(* Units.  Time is in milliseconds, as Date.now().  Distances and speeds  *)
(* are held in hundredths (of a nautical mile, of a knot), headings and   *)
(* bearings in hundredths of a degree, so that the code's comparisons on  *)
(* floating point values (dist <= 8, speed <= 2, diff <= 45) are exact    *)
(* integer comparisons here.  Reported values rounded by the code with    *)
(* Math.round(x * 10) / 10 are held in tenths.                            *)
(*                                                                         *)
(* A value that the code holds as "T | null" is a sequence of length 0    *)
(* (null) or 1; a nullable number is NULL (-1) when absent.               *)
(***************************************************************************)
EXTENDS Integers, Sequences, FiniteSets, TLC

VARIABLES
    now,          \* Date.now(), ms
    dir,          \* the port table: unlocode -> "absent" | "nocoord" | "ok"
    positions,    \* the vesselPosition table, in insertion order
    cache,        \* engine cache: unlocode -> <<>> | <<[data, ts]>>
    checklists,   \* the stored document checklists (one file per voyage)
    rules,        \* the alert rules file
    notify,       \* the enabled notification channels of hitl-notify.json
    alertLog,     \* unlocode -> the lines of <unlocode>.jsonl
    nextId,       \* the number of alert ids drawn so far, plus 1
    attempts,     \* every fetch() issued for a notification, with its outcome
    events,       \* unlocode -> the persistAlert / fetch calls of its passes, in order
    agents,       \* agent -> [ports, tg]
    proc,         \* the requests and the sweep in flight
    lastAck,      \* the last acknowledgeAlert call and what it returned
    congLog,      \* the lines of congestion-alerts.jsonl
    ticks,        \* how often the clock has advanced
    registry,     \* onboarding: the Map `agents`, email key -> <<>> | <<agent>>
    issued,       \* the number of random ids and keys drawn so far
    reply,        \* the last call of the agent desk and what it returned
    bls,          \* B/L number -> <<>> | <<the record of <blNumber>.json>>
    portCalls,    \* records.json: portCallId -> <<>> | <<the record>>
    enriching,    \* the port calls whose enrichFromCarta is awaiting its fetch
    dd,           \* demurrage: B/L number -> <<>> | <<the record of <blNumber>.json>>
    ddEvents,     \* the calls of the D&D broadcast callback, in order
    profile       \* the last vessel profile built: <<>> | <<[stored, track]>>

\* the state of the port intelligence and alert engine
engine == <<now, dir, positions, cache, checklists, rules, notify, alertLog,
            nextId, attempts, events, agents, proc, lastAck, congLog, ticks>>

\* the state of the agent desk (onboarding, B/L, port calls, demurrage)
accounts == <<registry, issued>>

calls == <<portCalls, enriching>>

demurrage == <<dd, ddEvents>>

desk == <<accounts, reply, bls, calls, demurrage, profile>>

\* what the operations of one store of the desk leave alone
besidesAccounts == <<engine, bls, calls, demurrage, profile>>
besidesBL == <<engine, accounts, calls, demurrage, profile>>
besidesCalls == <<engine, accounts, bls, demurrage, profile>>
besidesDD == <<engine, accounts, bls, calls, profile>>
besidesProfile == <<engine, accounts, reply, bls, calls, demurrage>>

vars == <<engine, desk>>

---------------------------------------------------------------------------
(* Bounds of the model *)

MaxLog == 3
MaxTicks == 3
MaxRows == 4
MaxCalls == 4

---------------------------------------------------------------------------
(* Values *)

NULL == -1

HOUR == 3600000

UpperPorts == {"INNSA", "SGSIN"}
PortCodes == {"INNSA", "innsa", "SGSIN"}

\* String.prototype.toUpperCase on the port codes of the model
toUpperCase(code) ==
    IF code = "innsa" THEN "INNSA" ELSE code

PortOrder == <<"INNSA", "SGSIN">>

PortName(u) ==
    IF u = "INNSA" THEN "Nhava Sheva" ELSE "Singapore"

Vessels == {"V1", "V2", "V3"}

\* vessel.imo of the vessel table (imo is the upsert key of the seed)
ImoOf(v) ==
    CASE v = "V1" -> "9811000"
      [] v = "V2" -> "9792819"
      [] OTHER    -> "9321483"

Places == {"anch3", "anch8", "anch801", "appr15", "appr20", "tran2001", "tran22",
           "tran2496", "tran25", "out2501", "in30", "in100", "in200", "out20001",
           "far"}

AlertTypes == {"ETA_IMMINENT", "DG_INBOUND", "DOC_OVERDUE", "HIGH_CONGESTION"}
Channels == {"telegram", "email", "webhook"}

---------------------------------------------------------------------------
(* GeoMath.  The trigonometry of haversineNm and bearingDeg is tabulated   *)
(* for the places and ports of the model: the value is what the function  *)
(* returns for the coordinates of the place and of the port.              *)

\* distance in 1/100 nm from the port to the place
haversineNm(u, place) ==
    IF u = "INNSA"
    THEN CASE place = "anch3"   -> 300
           [] place = "anch8"   -> 800
           [] place = "anch801" -> 801
           [] place = "appr15"  -> 1500
           [] place = "appr20"  -> 2000
           [] place = "tran2001" -> 2001
           [] place = "tran22"  -> 2200
           [] place = "tran2496" -> 2496
           [] place = "tran25"  -> 2500
           [] place = "out2501" -> 2501
           [] place = "in30"    -> 3000
           [] place = "in100"   -> 10000
           [] place = "in200"   -> 20000
           [] place = "out20001" -> 20001
           [] OTHER             -> 250000
    ELSE CASE place = "far"     -> 1200
           [] OTHER             -> 240000

\* bearing in 1/100 degree from the place to the port, in [0, 36000)
bearingDeg(place, u) ==
    IF u = "INNSA"
    THEN CASE place = "in30"  -> 1000
           [] place = "in100" -> 9000
           [] OTHER           -> 18000
    ELSE 27000

Abs(x) == IF x < 0 THEN -x ELSE x

\* variant: the difference is not folded back under 180 degrees
headingDiff_NoWrap(a, b) ==
    Abs(a - b) % 36000

\* in 1/100 degree
headingDiff(a, b) ==
    LET diff == Abs(a - b) % 36000
    IN  IF diff > 18000 THEN 36000 - diff ELSE diff

\* Math.round(n / d * 10), for n >= 0 and d > 0: tenths, half rounded up
RoundTenths(n, d) == (20 * n + d) \div (2 * d)

---------------------------------------------------------------------------
(* Sequence helpers *)

Reverse(s) ==
    [i \in 1..Len(s) |-> s[Len(s) + 1 - i]]

\* variant: the list is not cut
Take_All(s, n) == s

\* Array.prototype.slice(0, n)
Take(s, n) ==
    IF Len(s) <= n THEN s ELSE SubSeq(s, 1, n)

\* Array.prototype.slice(-n)
LastN(s, n) ==
    IF Len(s) <= n THEN s ELSE SubSeq(s, Len(s) - n + 1, Len(s))

\* one step of a stable insertion sort on the field read by Key
RECURSIVE InsertByDistance(_, _)
InsertByDistance(sorted, x) ==
    IF sorted = <<>> THEN <<x>>
    ELSE IF Head(sorted).distanceNm <= x.distanceNm
         THEN <<Head(sorted)>> \o InsertByDistance(Tail(sorted), x)
         ELSE <<x>> \o sorted

\* sightings.sort((a, b) => a.distanceNm - b.distanceNm), a stable sort
RECURSIVE SortByDistance(_)
SortByDistance(s) ==
    IF s = <<>> THEN <<>>
    ELSE InsertByDistance(SortByDistance(SubSeq(s, 1, Len(s) - 1)), s[Len(s)])

RECURSIVE InsertByEta(_, _)
InsertByEta(sorted, x) ==
    IF sorted = <<>> THEN <<x>>
    ELSE IF Head(sorted).etaHours <= x.etaHours
         THEN <<Head(sorted)>> \o InsertByEta(Tail(sorted), x)
         ELSE <<x>> \o sorted

\* vessels.sort((a, b) => a.etaHours - b.etaHours), a stable sort
RECURSIVE SortByEta(_)
SortByEta(s) ==
    IF s = <<>> THEN <<>>
    ELSE InsertByEta(SortByEta(SubSeq(s, 1, Len(s) - 1)), s[Len(s)])

---------------------------------------------------------------------------
(* The position store *)

\* take: 5000 of getPortCongestion, take: 8000 of getPreArrivalVessels
CONGESTION_TAKE == 5000
PREARRIVAL_TAKE == 8000

\* prisma.vesselPosition.findMany({ timestamp >= since, orderBy desc, take }):
\* the rows of the window, most recent first, cut after take rows
findManyPositions(since, take) ==
    Take(Reverse(SelectSeq(positions, LAMBDA r: r.timestamp >= since)), take)

\* rawPositions.filter(p => !seen.has(p.vesselId) ...): the first row of each
\* vessel, that is the rows no earlier row of the list shares the vessel with
Deduplicate(rows) ==
    LET numbered == [i \in 1..Len(rows) |-> [k |-> i, row |-> rows[i]]]
        kept     == SelectSeq(numbered, LAMBDA x :
                        \A j \in 1..(x.k - 1) : rows[j].vesselId # x.row.vesselId)
    IN  [i \in 1..Len(kept) |-> kept[i].row]

\* p.speed ?? 0
SpeedOf(p) == IF p.speed = NULL THEN 0 ELSE p.speed

---------------------------------------------------------------------------
(* Congestion classifier (congestion/engine) *)

STOPPED_NAV_STATUS == {1, 5, 6}

CACHE_TTL_MS == 60000

\* the scan radius, the zone radii (nm) and the zone speeds (kn) of the classifier
SCAN_RADIUS_NM == 25
ANCHORAGE_RADIUS_NM == 8
APPROACH_RADIUS_NM == 20
ANCHORAGE_SPEED_KT == 2
APPROACH_SPEED_KT == 5

\* variant: the anchorage radius is exclusive
ZoneOf_Exclusive(dist, speed, navStatus) ==
    IF dist < ANCHORAGE_RADIUS_NM * 100
       /\ (speed <= ANCHORAGE_SPEED_KT * 100 \/ navStatus \in STOPPED_NAV_STATUS)
    THEN "anchorage"
    ELSE IF dist <= APPROACH_RADIUS_NM * 100 /\ speed <= APPROACH_SPEED_KT * 100
         THEN "approach"
         ELSE "transit"

\* the zone of a fix at dist (1/100 nm) with speed (1/100 kn) and navStatus
ZoneOf(dist, speed, navStatus) ==
    IF dist <= ANCHORAGE_RADIUS_NM * 100
       /\ (speed <= ANCHORAGE_SPEED_KT * 100 \/ navStatus \in STOPPED_NAV_STATUS)
    THEN "anchorage"
    ELSE IF dist <= APPROACH_RADIUS_NM * 100 /\ speed <= APPROACH_SPEED_KT * 100
         THEN "approach"
         ELSE "transit"

\* the loop body of getPortCongestion for one deduplicated row
Sighting(u, p) ==
    [imo        |-> ImoOf(p.vesselId),
     name       |-> p.vesselId,
     distanceNm |-> RoundTenths(haversineNm(u, p.place), 100),
     speedKt    |-> RoundTenths(SpeedOf(p), 100),
     heading    |-> p.heading,
     navStatus  |-> p.navigationStatus,
     zone       |-> ZoneOf(haversineNm(u, p.place), SpeedOf(p), p.navigationStatus)]

\* variant: no row is skipped for its distance
InScanRadius_All(u, rows) == rows

\* the rows the classifier keeps: if (dist > 25) continue
InScanRadius(u, rows) ==
    SelectSeq(rows, LAMBDA p: ~(haversineNm(u, p.place) > SCAN_RADIUS_NM * 100))

RECURSIVE Classify(_, _)
Classify(u, rows) ==
    IF rows = <<>> THEN <<>>
    ELSE <<Sighting(u, Head(rows))>> \o Classify(u, Tail(rows))

CountZone(sightings, zone) ==
    Cardinality({i \in 1..Len(sightings) : sightings[i].zone = zone})

\* variant: the thresholds are exclusive
LevelOf_Exclusive(score) ==
    IF score > 50 THEN "critical"
    ELSE IF score > 25 THEN "high"
    ELSE IF score > 10 THEN "moderate"
    ELSE "low"

LevelOf(score) ==
    IF score >= 50 THEN "critical"
    ELSE IF score >= 25 THEN "high"
    ELSE IF score >= 10 THEN "moderate"
    ELSE "low"

\* variant: a vessel in transit adds to the score and to the wait
CongestionData_TransitScored(u, rawPositions, t) ==
    LET sightings == Classify(u, InScanRadius(u, Deduplicate(rawPositions)))
        anchorage == CountZone(sightings, "anchorage")
        approach  == CountZone(sightings, "approach")
        transit   == CountZone(sightings, "transit")
        score     == anchorage * 15 + approach * 5 + transit
        waitHours == anchorage * 6 + approach * 2 + transit
    IN  [port               |-> [unlocode |-> u, name |-> PortName(u)],
         anchorageVessels   |-> anchorage,
         approachVessels    |-> approach,
         transitVessels     |-> transit,
         congestionScore    |-> score,
         level              |-> LevelOf(score),
         estimatedWaitHours |-> waitHours,
         detentionCostUsd   |-> waitHours * 500,
         vessels            |-> Take(SortByDistance(sightings), 25),
         dataWindowHours    |-> 6,
         updatedAt          |-> t]

\* getPortCongestion from the positions query to the data record
CongestionData(u, rawPositions, t) ==
    LET sightings == Classify(u, InScanRadius(u, Deduplicate(rawPositions)))
        anchorage == CountZone(sightings, "anchorage")
        approach  == CountZone(sightings, "approach")
        transit   == CountZone(sightings, "transit")
        score     == anchorage * 15 + approach * 5
        waitHours == anchorage * 6 + approach * 2
    IN  [port               |-> [unlocode |-> u, name |-> PortName(u)],
         anchorageVessels   |-> anchorage,
         approachVessels    |-> approach,
         transitVessels     |-> transit,
         congestionScore    |-> score,
         level              |-> LevelOf(score),
         estimatedWaitHours |-> waitHours,
         detentionCostUsd   |-> waitHours * 500,
         vessels            |-> Take(SortByDistance(sightings), 25),
         dataWindowHours    |-> 6,
         updatedAt          |-> t]

\* variant: an entry of exactly the TTL still answers
CacheHitIn_Inclusive(c, u) ==
    c[u] # <<>> /\ now - c[u][1].ts <= CACHE_TTL_MS

\* const cached = cache.get(upper); cached && Date.now() - cached.ts < CACHE_TTL_MS
CacheHitIn(c, u) ==
    c[u] # <<>> /\ now - c[u][1].ts < CACHE_TTL_MS

CacheHit(u) == CacheHitIn(cache, u)

\* variant: only a missing row counts, a row without coordinates does not
PortUnavailable_AbsentOnly(u) == dir[u] = "absent"

\* !port || port.lat == null || port.lng == null
PortUnavailable(u) == dir[u] # "ok"

---------------------------------------------------------------------------
(* Pre-arrival predictor (agent/pre-arrival) *)

SEARCH_RADIUS_NM == 200
MIN_SPEED_KT == 3
MAX_HEADING_DIFF == 45

\* the number parseInt gives for a string that does not start with digits;
\* every comparison with it is false
NAN == -2

\* parseInt(s, 10) for the query strings of the model
parseInt(s) ==
    CASE s = "10" -> 10
      [] s = "48" -> 48
      [] s = "72" -> 72
      [] OTHER    -> NAN

\* parseInt((req.query as any).window ?? '48', 10): q is <<>> without the
\* parameter and <<s>> with ?window=s
WindowParam(q) ==
    parseInt(IF q = <<>> THEN "48" ELSE q[1])

\* variant: a heading exactly 45 degrees off the bearing is not inbound
Inbound_Exclusive(u, p, windowHours) ==
    LET dist  == haversineNm(u, p.place)
        speed == SpeedOf(p)
    IN  /\ ~(dist > SEARCH_RADIUS_NM * 100)
        /\ ~(speed < MIN_SPEED_KT * 100)
        /\ (p.heading # NULL =>
               headingDiff(p.heading, bearingDeg(p.place, u)) < MAX_HEADING_DIFF * 100)
        /\ ~(windowHours # NAN /\ dist > windowHours * speed)

\* the per-row filter of getPreArrivalVessels
Inbound(u, p, windowHours) ==
    LET dist  == haversineNm(u, p.place)
        speed == SpeedOf(p)
    IN  /\ ~(dist > SEARCH_RADIUS_NM * 100)
        /\ ~(speed < MIN_SPEED_KT * 100)
        /\ (p.heading # NULL =>
               headingDiff(p.heading, bearingDeg(p.place, u)) <= MAX_HEADING_DIFF * 100)
        /\ ~(windowHours # NAN /\ dist > windowHours * speed)

\* variant: the tiers end before 15 and 30 degrees
ConfidenceOf_Exclusive(u, p) ==
    IF p.heading # NULL
    THEN LET diff == headingDiff(p.heading, bearingDeg(p.place, u))
         IN  IF diff < 1500 THEN "high" ELSE IF diff < 3000 THEN "medium" ELSE "low"
    ELSE "medium"

ConfidenceOf(u, p) ==
    IF p.heading # NULL
    THEN LET diff == headingDiff(p.heading, bearingDeg(p.place, u))
         IN  IF diff <= 1500 THEN "high" ELSE IF diff <= 3000 THEN "medium" ELSE "low"
    ELSE "medium"

\* variant: the tenths of etaHours are cut, not rounded
PreArrivalVessel_Truncated(u, p, t) ==
    LET dist  == haversineNm(u, p.place)
        speed == SpeedOf(p)
    IN  [imo           |-> ImoOf(p.vesselId),
         name          |-> p.vesselId,
         distanceNm    |-> RoundTenths(dist, 100),
         speedKt       |-> RoundTenths(speed, 100),
         heading       |-> p.heading,
         bearingToPort |-> (bearingDeg(p.place, u) + 50) \div 100,
         etaHours      |-> (10 * dist) \div speed,
         etaAt         |-> t + ((dist * 3600) \div speed) * 1000,
         confidence    |-> ConfidenceOf(u, p),
         lastSeen      |-> p.timestamp]

PreArrivalVessel(u, p, t) ==
    LET dist  == haversineNm(u, p.place)
        speed == SpeedOf(p)
    IN  [imo           |-> ImoOf(p.vesselId),
         name          |-> p.vesselId,
         distanceNm    |-> RoundTenths(dist, 100),
         speedKt       |-> RoundTenths(speed, 100),
         heading       |-> p.heading,
         bearingToPort |-> (bearingDeg(p.place, u) + 50) \div 100,
         etaHours      |-> RoundTenths(dist, speed),
         \* Date.now() + etaHours * 3600_000, to the second
         etaAt         |-> t + ((dist * 3600) \div speed) * 1000,
         confidence    |-> ConfidenceOf(u, p),
         lastSeen      |-> p.timestamp]

RECURSIVE PreArrivalList(_, _, _, _)
PreArrivalList(u, rows, windowHours, t) ==
    IF rows = <<>> THEN <<>>
    ELSE IF Inbound(u, Head(rows), windowHours)
         THEN <<PreArrivalVessel(u, Head(rows), t)>>
                  \o PreArrivalList(u, Tail(rows), windowHours, t)
         ELSE PreArrivalList(u, Tail(rows), windowHours, t)

\* getPreArrivalVessels from the positions query to the report
PreArrivalReport(u, rawPositions, windowHours, t) ==
    LET vessels == SortByEta(PreArrivalList(u, Deduplicate(rawPositions), windowHours, t))
    IN  [port           |-> [unlocode |-> u, name |-> PortName(u)],
         windowHours    |-> windowHours,
         inboundVessels |-> Len(vessels),
         vessels        |-> vessels,
         generatedAt    |-> t]

---------------------------------------------------------------------------
(* Document readiness (agent/documents) *)

DocIds == {"general-declaration", "dangerous-goods", "maritime-health"}

\* dueHoursBeforeEta of the catalogue entries the model keeps
DueHoursBeforeEta(d) ==
    CASE d = "general-declaration" -> 24
      [] d = "dangerous-goods"     -> 48
      [] OTHER                     -> 12

\* buildSummary(docs, etaAt) evaluated at time t: the stored pending,
\* rejected and overdue counts (etaAt of 0 or null gives no overdue)
buildSummary(docs, etaAt, t) ==
    [pending  |-> Cardinality({d \in DocIds : docs[d] = "pending"}),
     rejected |-> Cardinality({d \in DocIds : docs[d] = "rejected"}),
     overdue  |-> IF etaAt = NULL \/ etaAt = 0 THEN 0
                  ELSE Cardinality({d \in DocIds :
                           docs[d] = "pending" /\ t > etaAt - DueHoursBeforeEta(d) * HOUR})]

\* (a.etaAt ?? '').localeCompare(b.etaAt ?? '') || a.voyageId.localeCompare(b.voyageId)
ChecklistBefore(a, b) ==
    a.etaAt < b.etaAt \/ (a.etaAt = b.etaAt /\ a.voyageId <= b.voyageId)

RECURSIVE InsertChecklist(_, _)
InsertChecklist(sorted, x) ==
    IF sorted = <<>> THEN <<x>>
    ELSE IF ChecklistBefore(Head(sorted), x)
         THEN <<Head(sorted)>> \o InsertChecklist(Tail(sorted), x)
         ELSE <<x>> \o sorted

RECURSIVE SortChecklists(_)
SortChecklists(s) ==
    IF s = <<>> THEN <<>>
    ELSE InsertChecklist(SortChecklists(SubSeq(s, 1, Len(s) - 1)), s[Len(s)])

\* the checklists with something pending or rejected, sorted by etaAt, voyageId
listOpenChecklists ==
    SortChecklists(SelectSeq(checklists,
        LAMBDA c: c.summary.pending > 0 \/ c.summary.rejected > 0))

\* openDocs.find(c => c.imo === vessel.imo && c.portUnlocode === portUpper)
FindChecklist(openDocs, imo, portUpper) ==
    LET hits == SelectSeq(openDocs, LAMBDA c: c.imo = imo /\ c.portUnlocode = portUpper)
    IN  Take(hits, 1)

---------------------------------------------------------------------------
(* Alert engine (agent/alerts) *)

DEDUP_WINDOW == 60 * 60000

\* loadAlerts keeps the last 500 lines of the file
ALERTS_TAIL == 500

\* the fetch timeout of every channel of deliverAlert: AbortSignal.timeout(5000)
DELIVER_TIMEOUT_MS == 5000

\* a fetch() issued without an AbortSignal
NO_TIMEOUT == 0

DefaultRules ==
    [etaThresholdHours |-> 6,
     congestionLevels  |-> {"high", "critical"},
     disabledTypes     |-> {}]

\* loadRules(): the rules file, which ensureDefaultRules() writes at startup
loadRules == rules

\* the lines of the JSONL file of the port, [] when the file does not exist
\* variant: every port shares one file
alertsFile_Shared(portCode) == alertLog["INNSA"]

alertsFile(portCode) == alertLog[toUpperCase(portCode)]

\* a line of the file that is no JSON, such as the rest of a write cut short
TornLine == [raw |-> "torn"]

\* JSON.parse(l) returns an alert; the catch blocks take the other lines
Parses(l) == "id" \in DOMAIN l

\* variant: a line that does not parse ends the read
loadAlerts_Abort(portCode) ==
    LET tail == LastN(alertsFile(toUpperCase(portCode)), ALERTS_TAIL)
    IN  IF \A i \in 1..Len(tail) : Parses(tail[i]) THEN tail ELSE <<>>

\* the last 500 lines, parsed, without the lines that do not parse
loadAlerts(portCode) ==
    SelectSeq(LastN(alertsFile(toUpperCase(portCode)), ALERTS_TAIL), Parses)

\* getAlerts(portCode, includeAcknowledged): newest first
getAlerts(portCode, includeAcknowledged) ==
    LET all == loadAlerts(portCode)
    IN  IF includeAcknowledged THEN Reverse(all)
        ELSE Reverse(SelectSeq(all, LAMBDA a : ~a.acknowledged))

\* variant: an alert exactly 60 minutes old still suppresses
isDuplicate_Inclusive(existing, type, imo, t) ==
    \E i \in 1..Len(existing) :
        /\ existing[i].type = type
        /\ existing[i].imo = imo
        /\ ~existing[i].acknowledged
        /\ t - existing[i].ts <= DEDUP_WINDOW

isDuplicate(existing, type, imo, t) ==
    \E i \in 1..Len(existing) :
        /\ existing[i].type = type
        /\ existing[i].imo = imo
        /\ ~existing[i].acknowledged
        /\ t - existing[i].ts < DEDUP_WINDOW

PortPseudoId(portUpper) ==
    IF portUpper = "INNSA" THEN "PORT_INNSA" ELSE "PORT_SGSIN"

makeAlert(portCode, c, id, t) ==
    [id           |-> id,
     ts           |-> t,
     portCode     |-> toUpperCase(portCode),
     type         |-> c.type,
     severity     |-> c.severity,
     imo          |-> c.imo,
     vesselName   |-> c.name,
     message      |-> c.message,
     acknowledged |-> FALSE]

\* variant: every HIGH_CONGESTION alert is a WARNING
CongestionCandidates_AllWarning(portUpper, r, congestion) ==
    IF /\ "HIGH_CONGESTION" \notin r.disabledTypes
       /\ congestion # <<>>
       /\ congestion[1].level \in r.congestionLevels
    THEN LET c == congestion[1]
         IN  <<[type     |-> "HIGH_CONGESTION",
                severity |-> "WARNING",
                imo      |-> PortPseudoId(portUpper),
                name     |-> c.port.name,
                message  |-> [s  |-> c.level, n1 |-> c.congestionScore,
                              n2 |-> c.anchorageVessels + c.approachVessels,
                              n3 |-> c.estimatedWaitHours]]>>
    ELSE <<>>

\* variant: the rule does not look at the suppressed types
CongestionCandidates_NotSuppressed(portUpper, r, congestion) ==
    IF /\ congestion # <<>>
       /\ congestion[1].level \in r.congestionLevels
    THEN LET c == congestion[1]
         IN  <<[type     |-> "HIGH_CONGESTION",
                severity |-> IF c.level = "critical" THEN "CRITICAL" ELSE "WARNING",
                imo      |-> PortPseudoId(portUpper),
                name     |-> c.port.name,
                message  |-> [s  |-> c.level, n1 |-> c.congestionScore,
                              n2 |-> c.anchorageVessels + c.approachVessels,
                              n3 |-> c.estimatedWaitHours]]>>
    ELSE <<>>

\* the HIGH_CONGESTION rule: the alert it asks for, before deduplication
CongestionCandidates(portUpper, r, congestion) ==
    IF /\ "HIGH_CONGESTION" \notin r.disabledTypes
       /\ congestion # <<>>
       /\ congestion[1].level \in r.congestionLevels
    THEN LET c == congestion[1]
         IN  <<[type     |-> "HIGH_CONGESTION",
                severity |-> IF c.level = "critical" THEN "CRITICAL" ELSE "WARNING",
                imo      |-> PortPseudoId(portUpper),
                name     |-> c.port.name,
                message  |-> [s  |-> c.level, n1 |-> c.congestionScore,
                              n2 |-> c.anchorageVessels + c.approachVessels,
                              n3 |-> c.estimatedWaitHours]]>>
    ELSE <<>>

\* variant: a vessel exactly at the ETA threshold is not imminent
VesselCandidates_Exclusive(portUpper, r, vessel, openDocs) ==
    LET checklist == FindChecklist(openDocs, vessel.imo, portUpper)
        eta == IF /\ "ETA_IMMINENT" \notin r.disabledTypes
                  /\ vessel.etaHours < r.etaThresholdHours * 10
               THEN <<[type     |-> "ETA_IMMINENT",
                       severity |-> IF vessel.etaHours <= 20 THEN "CRITICAL" ELSE "WARNING",
                       imo      |-> vessel.imo,
                       name     |-> vessel.name,
                       message  |-> [s  |-> vessel.confidence, n1 |-> vessel.etaHours,
                                     n2 |-> vessel.distanceNm, n3 |-> vessel.speedKt]]>>
               ELSE <<>>
        doc == IF /\ "DOC_OVERDUE" \notin r.disabledTypes
                  /\ checklist # <<>>
                  /\ checklist[1].summary.overdue > 0
               THEN <<[type     |-> "DOC_OVERDUE",
                       severity |-> "WARNING",
                       imo      |-> vessel.imo,
                       name     |-> vessel.name,
                       message  |-> [s  |-> "overdue", n1 |-> checklist[1].summary.overdue,
                                     n2 |-> checklist[1].voyageId, n3 |-> vessel.etaHours]]>>
               ELSE <<>>
        dg  == IF /\ "DG_INBOUND" \notin r.disabledTypes
                  /\ checklist # <<>>
                  /\ checklist[1].documents["dangerous-goods"] = "submitted"
               THEN <<[type     |-> "DG_INBOUND",
                       severity |-> "WARNING",
                       imo      |-> vessel.imo,
                       name     |-> vessel.name,
                       message  |-> [s  |-> "dg", n1 |-> checklist[1].voyageId,
                                     n2 |-> 0, n3 |-> 0]]>>
               ELSE <<>>
    IN  eta \o doc \o dg

\* the three per-vessel rules for one vessel of the pre-arrival list
VesselCandidates(portUpper, r, vessel, openDocs) ==
    LET checklist == FindChecklist(openDocs, vessel.imo, portUpper)
        eta == IF /\ "ETA_IMMINENT" \notin r.disabledTypes
                  /\ vessel.etaHours <= r.etaThresholdHours * 10
               THEN <<[type     |-> "ETA_IMMINENT",
                       severity |-> IF vessel.etaHours <= 20 THEN "CRITICAL" ELSE "WARNING",
                       imo      |-> vessel.imo,
                       name     |-> vessel.name,
                       message  |-> [s  |-> vessel.confidence, n1 |-> vessel.etaHours,
                                     n2 |-> vessel.distanceNm, n3 |-> vessel.speedKt]]>>
               ELSE <<>>
        doc == IF /\ "DOC_OVERDUE" \notin r.disabledTypes
                  /\ checklist # <<>>
                  /\ checklist[1].summary.overdue > 0
               THEN <<[type     |-> "DOC_OVERDUE",
                       severity |-> "WARNING",
                       imo      |-> vessel.imo,
                       name     |-> vessel.name,
                       message  |-> [s  |-> "overdue", n1 |-> checklist[1].summary.overdue,
                                     n2 |-> checklist[1].voyageId, n3 |-> vessel.etaHours]]>>
               ELSE <<>>
        dg  == IF /\ "DG_INBOUND" \notin r.disabledTypes
                  /\ checklist # <<>>
                  /\ checklist[1].documents["dangerous-goods"] = "submitted"
               THEN <<[type     |-> "DG_INBOUND",
                       severity |-> "WARNING",
                       imo      |-> vessel.imo,
                       name     |-> vessel.name,
                       message  |-> [s  |-> "dg", n1 |-> checklist[1].voyageId,
                                     n2 |-> 0, n3 |-> 0]]>>
               ELSE <<>>
    IN  eta \o doc \o dg

RECURSIVE AllVesselCandidates(_, _, _, _)
AllVesselCandidates(portUpper, r, vessels, openDocs) ==
    IF vessels = <<>> THEN <<>>
    ELSE VesselCandidates(portUpper, r, Head(vessels), openDocs)
             \o AllVesselCandidates(portUpper, r, Tail(vessels), openDocs)

\* every alert the rules ask for in one pass, in the order the code meets them
Triggered(portCode, r, preArrival, congestion, openDocs) ==
    CongestionCandidates(toUpperCase(portCode), r, congestion)
        \o AllVesselCandidates(toUpperCase(portCode), r,
               IF preArrival = <<>> THEN <<>> ELSE preArrival[1].vessels, openDocs)

\* the candidates that pass !isDuplicate(existing, type, imo)
Surviving(existing, candidates, t) ==
    SelectSeq(candidates, LAMBDA c: ~isDuplicate(existing, c.type, c.imo, t))

\* uuidv4(): an id no other alert has; the k-th alert of a port's file gets
\* the k-th id of the port's own range
FreshId(portUpper, k) ==
    (IF portUpper = "INNSA" THEN 100 ELSE 200) + k

\* the list `fired` of evaluateAlerts: makeAlert for every surviving candidate
FiredAlerts(portCode, existing, candidates, t) ==
    LET keep == Surviving(existing, candidates, t)
        n    == Len(alertsFile(portCode))
    IN  [i \in 1..Len(keep) |->
            makeAlert(portCode, keep[i], FreshId(toUpperCase(portCode), n + i), t)]

\* the channels deliverAlert posts to, in the order of its three blocks
ChannelOrder == <<"telegram", "email", "webhook">>

EnabledChannels(cfg) ==
    SelectSeq(ChannelOrder, LAMBDA ch: ch \in cfg)

\* variant: delivery stops after the first enabled channel
deliverAlert_FirstOnly(alert, cfg) ==
    LET chs == Take(EnabledChannels(cfg), 1)
    IN  [i \in 1..Len(chs) |->
            [alertId |-> alert.id, channel |-> chs[i],
             timeoutMs |-> DELIVER_TIMEOUT_MS, status |-> "pending"]]

\* deliverAlert(alert): one fetch per enabled channel, each with a 5 s timeout
deliverAlert(alert, cfg) ==
    LET chs == EnabledChannels(cfg)
    IN  [i \in 1..Len(chs) |->
            [alertId |-> alert.id, channel |-> chs[i],
             timeoutMs |-> DELIVER_TIMEOUT_MS, status |-> "pending"]]

\* persistAlert(a); deliverAlert(a) for one alert, as a list of calls in order
AlertCalls(alert, cfg) ==
    LET d == deliverAlert(alert, cfg)
    IN  <<[op |-> "persist", alertId |-> alert.id, channel |-> "file"]>>
            \o [i \in 1..Len(d) |->
                   [op |-> "fetch", alertId |-> alert.id, channel |-> d[i].channel]]

\* the delivery attempts of a pass, alert after alert
RECURSIVE DeliverAll(_, _)
DeliverAll(fired, cfg) ==
    IF fired = <<>> THEN <<>>
    ELSE deliverAlert(Head(fired), cfg) \o DeliverAll(Tail(fired), cfg)

\* the calls of a pass, alert after alert
RECURSIVE CallsAll(_, _)
CallsAll(fired, cfg) ==
    IF fired = <<>> THEN <<>>
    ELSE AlertCalls(Head(fired), cfg) \o CallsAll(Tail(fired), cfg)

\* variant: only the updated line is written back
acknowledgeAlertLines_OnlyMatch(lines, alertId) ==
    LET found   == \E i \in 1..Len(lines) : lines[i].id = alertId
        updated == [i \in 1..Len(lines) |-> [lines[i] EXCEPT !.acknowledged = TRUE]]
    IN  [lines |-> IF found THEN SelectSeq(updated, LAMBDA a : a.id = alertId) ELSE lines,
         found |-> found]

\* variant: an alert already acknowledged counts as not found
acknowledgeAlertLines_OnlyOpen(lines, alertId) ==
    LET found   == \E i \in 1..Len(lines) :
                       lines[i].id = alertId /\ ~lines[i].acknowledged
        updated == [i \in 1..Len(lines) |->
                       IF lines[i].id = alertId
                       THEN [lines[i] EXCEPT !.acknowledged = TRUE]
                       ELSE lines[i]]
    IN  [lines |-> IF found THEN updated ELSE lines, found |-> found]

\* acknowledgeAlert: the rewritten lines and the value returned
acknowledgeAlertLines(lines, alertId) ==
    LET found   == \E i \in 1..Len(lines) : Parses(lines[i]) /\ lines[i].id = alertId
        updated == [i \in 1..Len(lines) |->
                       IF Parses(lines[i]) /\ lines[i].id = alertId
                       THEN [lines[i] EXCEPT !.acknowledged = TRUE]
                       ELSE lines[i]]
    IN  [lines |-> IF found THEN updated ELSE lines, found |-> found]

---------------------------------------------------------------------------
(* Agent registry (agent/onboarding) *)

Agents == {"a1", "a2"}

\* the insertion order of the agents Map
AgentOrder == <<"a1", "a2">>

\* getAgentsForPort(portCode)
getAgentsForPort(portCode) ==
    SelectSeq(AgentOrder, LAMBDA a: toUpperCase(portCode) \in agents[a].ports)

\* the sweep's watchedPorts: every port of every agent
WatchedPorts ==
    SelectSeq(PortOrder, LAMBDA u: \E a \in Agents : u \in agents[a].ports)

\* sendTelegramAlert returns false at once unless the agent's config is complete
TelegramConfigured(a) == agents[a].tg

---------------------------------------------------------------------------
(* Requests in flight.  Node runs one callback at a time: an action is the *)
(* code between two awaits.                                                *)

Procs == {"p1", "p2"}

IdleProc ==
    [kind      |-> "none",    \* "rest" | "sweep" | "getcong" | "getpre"
     pc        |-> "idle",
     port      |-> "",        \* the portCode argument of the call in progress
     r         |-> DefaultRules,
     existing  |-> <<>>,      \* evaluateAlerts: const existing = loadAlerts(portCode)
     preSt     |-> "none",    \* getPreArrivalVessels: "none" | "query" | "done" | "failed"
     pre       |-> <<>>,
     congSt    |-> "none",    \* getPortCongestion: "none" | "query" | "done" | "failed"
     cong      |-> <<>>,
     fired     |-> <<>>,      \* what evaluateAlerts returned
     top       |-> <<>>,      \* getTopCongestedPorts: the ports still to visit
     watched   |-> <<>>,      \* the sweep: the watched ports still to evaluate
     fan       |-> <<>>,      \* the Telegram fan-out still to send
     status    |-> 0,         \* the HTTP status answered, 0 while none
     window    |-> 48,        \* the windowHours argument of getPreArrivalVessels
     att       |-> 0,         \* the index in attempts of the fetch awaited
     \* history, read by the properties only
     dirAtCall  |-> "none",   \* the port table entry when the query was called
     hitAtCall  |-> FALSE,    \* whether the cache answered the call
     subscribed |-> {},       \* the subscribed ports when the sweep listed them
     evaluated  |-> {},       \* the ports the sweep called evaluateAlerts for
     failedAt   |-> {}]       \* the ports at which a query of the sweep failed

\* since = Date.now() - hours * 3600_000
Since(hours) == now - hours * HOUR

\* getPortCongestion(u) up to its first await that leaves the function:
\* the cache c answers, or the port lookup answers null, or the positions
\* query is issued
CongestionCall(c, u) ==
    IF CacheHitIn(c, u) THEN [st |-> "done", val |-> <<c[u][1].data>>]
    ELSE IF PortUnavailable(u) THEN [st |-> "done", val |-> <<>>]
    ELSE [st |-> "query", val |-> <<>>]

\* variant: the positions query is issued whatever the port lookup answers
PreArrivalCall_NoCheck(u) ==
    [st |-> "query", val |-> <<>>]

\* getPreArrivalVessels(u) up to the positions query
PreArrivalCall(u) ==
    IF PortUnavailable(u) THEN [st |-> "done", val |-> <<>>]
    ELSE [st |-> "query", val |-> <<>>]

\* logAlert(port, level, score)
logAlert(data) ==
    <<[ts |-> now, port |-> data.port.unlocode, level |-> data.level,
       score |-> data.congestionScore]>>

\* fireWebhook(data): one fetch with a 5 s timeout when the channel is enabled
fireWebhook(data) ==
    IF "congestion" \in notify
    THEN <<[alertId |-> 0, channel |-> "congestion",
            timeoutMs |-> DELIVER_TIMEOUT_MS, status |-> "pending"]>>
    ELSE <<>>

\* variant: an entry younger than the TTL is not overwritten
CongestionCompute_FirstWins(u) ==
    LET data == CongestionData(u, findManyPositions(Since(6), CONGESTION_TAKE), now)
        high == data.level \in {"high", "critical"}
    IN  /\ cache' = IF CacheHit(u) THEN cache
                    ELSE [cache EXCEPT ![u] = <<[data |-> data, ts |-> now]>>]
        /\ congLog' = IF high THEN congLog \o logAlert(data) ELSE congLog
        /\ attempts' = IF high THEN attempts \o fireWebhook(data) ELSE attempts

\* variant: every recomputation is logged, whatever its level
CongestionCompute_LogsAll(u) ==
    LET data == CongestionData(u, findManyPositions(Since(6), CONGESTION_TAKE), now)
        high == data.level \in {"high", "critical"}
    IN  /\ cache' = [cache EXCEPT ![u] = <<[data |-> data, ts |-> now]>>]
        /\ congLog' = congLog \o logAlert(data)
        /\ attempts' = IF high THEN attempts \o fireWebhook(data) ELSE attempts

\* getPortCongestion(u) from the answer of the positions query to its return:
\* classify, cache.set, and the high/critical side effects
CongestionCompute(u) ==
    LET data == CongestionData(u, findManyPositions(Since(6), CONGESTION_TAKE), now)
        high == data.level \in {"high", "critical"}
    IN  /\ cache' = [cache EXCEPT ![u] = <<[data |-> data, ts |-> now]>>]
        /\ congLog' = IF high THEN congLog \o logAlert(data) ELSE congLog
        /\ attempts' = IF high THEN attempts \o fireWebhook(data) ELSE attempts

---------------------------------------------------------------------------
(* Onboarding (the agents Map, registerAgent, loginAgent, updateAgentPorts) *)

\* the emails a client may send
RawEmails == {"bob@x.com", "Bob@X.com", " bob@x.com ", "eve@y.com"}

\* email.toLowerCase().trim()
NormalizeEmail(raw) ==
    IF raw = "eve@y.com" THEN "eve@y.com" ELSE "bob@x.com"

\* the keys the Map can hold: agent.email of a stored agent
EmailKeys == {NormalizeEmail(raw) : raw \in RawEmails}

\* agents.has(key): Map keys are compared as they are
AgentsHas(key) ==
    key \in EmailKeys /\ registry[key] # <<>>

\* the answer of a desk call, numbered
Answer(op, arg, ok, error) ==
    [n |-> reply.n + 1, op |-> op, arg |-> arg, ok |-> ok, error |-> error]

\* registerAgent({email, name, company, password}); salt, id and apiKey are
\* random, the model numbers them
registerAgent(email, password) ==
    /\ reply.n < MaxCalls
    /\ IF AgentsHas(email)
       THEN /\ reply' = Answer("register", email, FALSE, "Email already registered")
            /\ UNCHANGED <<registry, issued>>
       ELSE /\ registry' = [registry EXCEPT ![NormalizeEmail(email)] =
                   <<[id           |-> issued + 1,
                      email        |-> NormalizeEmail(email),
                      passwordHash |-> <<password, issued + 1>>,
                      salt         |-> issued + 1,
                      apiKey       |-> issued + 1,
                      ports        |-> {},
                      lastLogin    |-> NULL]>>]
            /\ issued' = issued + 1
            /\ reply' = Answer("register", email, TRUE, "")
    /\ UNCHANGED besidesAccounts

\* loginAgent(email, password)
loginAgent(email, password) ==
    /\ reply.n < MaxCalls
    /\ LET key == NormalizeEmail(email)
       IN  IF registry[key] = <<>>
           THEN /\ reply' = Answer("login", email, FALSE, "Agent not found")
                /\ UNCHANGED registry
           ELSE IF <<password, registry[key][1].salt>> # registry[key][1].passwordHash
           THEN /\ reply' = Answer("login", email, FALSE, "Invalid password")
                /\ UNCHANGED registry
           ELSE /\ registry' = [registry EXCEPT ![key] = <<[@[1] EXCEPT !.lastLogin = now]>>]
                /\ reply' = Answer("login", email, TRUE, "")
    /\ UNCHANGED <<besidesAccounts, issued>>

\* updateAgentPorts(apiKey, ports) on the stored agent with that key
updatePortsByKey(apiKey, ports) ==
    /\ reply.n < MaxCalls
    /\ IF \E k \in EmailKeys : registry[k] # <<>> /\ registry[k][1].apiKey = apiKey
       THEN LET k == CHOOSE k \in EmailKeys :
                         registry[k] # <<>> /\ registry[k][1].apiKey = apiKey
            IN  /\ registry' = [registry EXCEPT ![k] = <<[@[1] EXCEPT !.ports = ports]>>]
                /\ reply' = Answer("ports", "", TRUE, "")
       ELSE /\ reply' = Answer("ports", "", FALSE, "Invalid API key")
            /\ UNCHANGED registry
    /\ UNCHANGED <<besidesAccounts, issued>>

---------------------------------------------------------------------------
(* Bills of lading (agent/bl.ts) *)

BLStatus == {"DRAFT", "ISSUED", "SURRENDERED", "RELEASED"}
BLReleaseType == {"ORIGINAL", "TELEX", "SEAWAY"}

\* the B/L numbers of one day, in the order generateBLNumber hands them out
BlSeq == <<"BL1", "BL2">>
BlNumbers == {BlSeq[i] : i \in 1..Len(BlSeq)}

\* loadIndex(): the numbers that have a record
BlIndex == {n \in BlNumbers : bls[n] # <<>>}

\* generateBLNumber(): today's entries of the index, plus 1
generateBLNumber == BlSeq[Cardinality(BlIndex) + 1]

\* createBL(input): a record in status DRAFT
createBL(releaseType) ==
    /\ reply.n < MaxCalls
    /\ Cardinality(BlIndex) < Len(BlSeq)
    /\ bls' = [bls EXCEPT ![generateBLNumber] =
                 <<[status        |-> "DRAFT",
                    releaseType   |-> releaseType,
                    consignee     |-> "Consignee",
                    issuedBy      |-> "",
                    surrenderedAt |-> NULL,
                    releasedAt    |-> NULL,
                    telexRefNo    |-> "",
                    amendments    |-> <<>>]>>]
    /\ reply' = Answer("createBL", generateBLNumber, TRUE, "")
    /\ UNCHANGED besidesBL

\* a call on a B/L that has no record returns null, one that throws saves nothing
BlRefused(op, blNumber, error) ==
    /\ reply' = Answer(op, blNumber, FALSE, error)
    /\ UNCHANGED bls

\* issueBL(blNumber, issuedBy)
issueBL(blNumber, issuedBy) ==
    /\ reply.n < MaxCalls
    /\ IF bls[blNumber] = <<>>
       THEN BlRefused("issueBL", blNumber, "not found")
       ELSE IF bls[blNumber][1].status # "DRAFT"
       THEN BlRefused("issueBL", blNumber, "Cannot issue B/L in status")
       ELSE /\ bls' = [bls EXCEPT ![blNumber] =
                         <<[@[1] EXCEPT !.status = "ISSUED", !.issuedBy = issuedBy]>>]
            /\ reply' = Answer("issueBL", blNumber, TRUE, "")
    /\ UNCHANGED besidesBL

\* the fields of the record an amendment may name: any property of the object
AmendFields == {"consignee", "status", "releaseType"}

\* amendBL(blNumber, {field, newValue}): (bl as any)[field] = newValue, and
\* the amendment is pushed
amendBL(blNumber, field, newValue) ==
    /\ reply.n < MaxCalls
    /\ IF bls[blNumber] = <<>>
       THEN BlRefused("amendBL", blNumber, "not found")
       ELSE IF bls[blNumber][1].status # "ISSUED"
       THEN BlRefused("amendBL", blNumber, "Amendments only allowed on ISSUED B/Ls")
       ELSE LET bl      == bls[blNumber][1]
                changed == [bl EXCEPT ![field] = newValue]
            IN  /\ bls' = [bls EXCEPT ![blNumber] =
                             <<[changed EXCEPT !.amendments =
                                  Append(bl.amendments,
                                         [amendmentNo |-> Len(bl.amendments) + 1,
                                          field       |-> field,
                                          oldValue    |-> bl[field],
                                          newValue    |-> newValue])]>>]
                /\ reply' = Answer("amendBL", blNumber, TRUE, "")
    /\ UNCHANGED besidesBL

\* surrenderBL(blNumber, surrenderedBy)
surrenderBL(blNumber, surrenderedBy) ==
    /\ reply.n < MaxCalls
    /\ IF bls[blNumber] = <<>>
       THEN BlRefused("surrenderBL", blNumber, "not found")
       ELSE IF bls[blNumber][1].status # "ISSUED"
       THEN BlRefused("surrenderBL", blNumber, "Can only surrender an ISSUED B/L")
       ELSE IF bls[blNumber][1].releaseType # "ORIGINAL"
       THEN BlRefused("surrenderBL", blNumber, "Surrender is only for ORIGINAL B/Ls")
       ELSE /\ bls' = [bls EXCEPT ![blNumber] =
                         <<[@[1] EXCEPT !.status = "SURRENDERED",
                                        !.surrenderedAt = now,
                                        !.issuedBy = surrenderedBy]>>]
            /\ reply' = Answer("surrenderBL", blNumber, TRUE, "")
    /\ UNCHANGED besidesBL

\* releaseBL(blNumber, {releaseType?, telexRefNo?}); "" is an absent input
releaseBL(blNumber, releaseType, telexRefNo) ==
    /\ reply.n < MaxCalls
    /\ IF bls[blNumber] = <<>>
       THEN BlRefused("releaseBL", blNumber, "not found")
       ELSE LET bl   == bls[blNumber][1]
                type == IF releaseType # "" THEN releaseType ELSE bl.releaseType
            IN  IF bl.status \notin {"ISSUED", "SURRENDERED"}
                THEN BlRefused("releaseBL", blNumber, "Cannot release B/L in status")
                ELSE IF type = "TELEX" /\ telexRefNo = ""
                THEN BlRefused("releaseBL", blNumber, "TELEX release requires telexRefNo")
                ELSE /\ bls' = [bls EXCEPT ![blNumber] =
                                  <<[bl EXCEPT !.releaseType = type,
                                               !.status = "RELEASED",
                                               !.releasedAt = now,
                                               !.telexRefNo =
                                                   IF telexRefNo # "" THEN telexRefNo ELSE @]>>]
                     /\ reply' = Answer("releaseBL", blNumber, TRUE, "")
    /\ UNCHANGED besidesBL

---------------------------------------------------------------------------
(* Port calls (agent/port-call.ts) *)

STAGE_ORDER == <<"NOA_RECEIVED", "BERTHING_REQUESTED", "BERTHED",
                 "CARGO_OPS", "DEPARTURE_CLEARED", "DEPARTED">>

PortCallStage == {STAGE_ORDER[i] : i \in 1..Len(STAGE_ORDER)}

indexOf(stage) ==
    IF stage \in PortCallStage
    THEN CHOOSE i \in 1..Len(STAGE_ORDER) : STAGE_ORDER[i] = stage
    ELSE 0

\* nextStage(current): <<>> is null
nextStage(current) ==
    IF indexOf(current) < 1 \/ indexOf(current) >= Len(STAGE_ORDER)
    THEN <<>>
    ELSE <<STAGE_ORDER[indexOf(current) + 1]>>

CallVoyages == {"VOY1", "VOY2"}

\* `${input.voyageId}_${input.portCode.toUpperCase()}`
PortCallIdOf(voyageId, portCode) == <<voyageId, toUpperCase(portCode)>>

PortCallIds == {PortCallIdOf(v, "INNSA") : v \in CallVoyages}

PortCallEvent(stage, updatedBy) ==
    [stage |-> stage, timestamp |-> now, updatedBy |-> updatedBy]

\* a call that throws saves nothing
CallRefused(op, voyageId, error) ==
    /\ reply' = Answer(op, voyageId, FALSE, error)
    /\ UNCHANGED calls

\* openPortCall(input): the record is saved and the enrichment is started
openPortCall(voyageId, portCode, updatedBy) ==
    /\ reply.n < MaxCalls
    /\ LET portCallId == PortCallIdOf(voyageId, portCode)
       IN  IF portCalls[portCallId] # <<>>
           THEN CallRefused("openPortCall", voyageId, "already exists")
           ELSE /\ portCalls' = [portCalls EXCEPT ![portCallId] =
                      <<[currentStage    |-> "NOA_RECEIVED",
                         events          |-> <<PortCallEvent("NOA_RECEIVED", updatedBy)>>,
                         ata             |-> NULL,
                         atd             |-> NULL,
                         da              |-> NULL,
                         cartaEnrichment |-> <<>>]>>]
                /\ enriching' = enriching \cup {portCallId}
                /\ reply' = Answer("openPortCall", voyageId, TRUE, "")
    /\ UNCHANGED besidesCalls

\* the record after an event of that stage is pushed: currentStage follows,
\* ata is set once on BERTHED and atd once on DEPARTED
StageEntered(record, stage, updatedBy) ==
    [record EXCEPT !.events = Append(@, PortCallEvent(stage, updatedBy)),
                   !.currentStage = stage,
                   !.ata = IF stage = "BERTHED" /\ @ = NULL THEN now ELSE @,
                   !.atd = IF stage = "DEPARTED" /\ @ = NULL THEN now ELSE @]

\* advancePortCall(portCallId, options)
advancePortCall(portCallId, updatedBy) ==
    /\ reply.n < MaxCalls
    /\ IF portCalls[portCallId] = <<>>
       THEN CallRefused("advancePortCall", portCallId[1], "not found")
       ELSE IF portCalls[portCallId][1].currentStage = "DEPARTED"
       THEN CallRefused("advancePortCall", portCallId[1], "already DEPARTED")
       ELSE IF nextStage(portCalls[portCallId][1].currentStage) = <<>>
       THEN CallRefused("advancePortCall", portCallId[1], "No next stage available")
       ELSE /\ portCalls' = [portCalls EXCEPT ![portCallId] =
                 <<StageEntered(@[1], nextStage(@[1].currentStage)[1], updatedBy)>>]
            /\ reply' = Answer("advancePortCall", portCallId[1], TRUE, "")
            /\ UNCHANGED enriching
    /\ UNCHANGED besidesCalls

\* setPortCallStage(portCallId, stage, options)
setPortCallStage(portCallId, stage, updatedBy) ==
    /\ reply.n < MaxCalls
    /\ IF portCalls[portCallId] = <<>>
       THEN CallRefused("setPortCallStage", portCallId[1], "not found")
       ELSE /\ portCalls' = [portCalls EXCEPT ![portCallId] =
                 <<StageEntered(@[1], stage, updatedBy)>>]
            /\ reply' = Answer("setPortCallStage", portCallId[1], TRUE, "")
            /\ UNCHANGED enriching
    /\ UNCHANGED besidesCalls

\* setDAEstimate(portCallId, da)
setDAEstimate(portCallId, totalUsd) ==
    /\ reply.n < MaxCalls
    /\ IF portCalls[portCallId] = <<>>
       THEN CallRefused("setDAEstimate", portCallId[1], "not found")
       ELSE /\ portCalls' = [portCalls EXCEPT ![portCallId] =
                 <<[@[1] EXCEPT !.da = totalUsd]>>]
            /\ reply' = Answer("setDAEstimate", portCallId[1], TRUE, "")
            /\ UNCHANGED enriching
    /\ UNCHANGED besidesCalls

\* what the fetch of the brief can come to: no usable brief ("none"), or a
\* brief that mentions the port, the vessel, or neither
BriefOutcomes == {"none", "port", "vessel", "neither"}

\* the record as openPortCall saved it, with cartaEnrichment set
Enriched_Snapshot(record, brief) ==
    [record EXCEPT !.events = SubSeq(@, 1, 1),
                   !.currentStage = "NOA_RECEIVED",
                   !.cartaEnrichment =
        <<[portMentioned |-> brief = "port", vesselMentioned |-> brief = "vessel"]>>]

\* the record enrichFromCarta saves: the stored record with cartaEnrichment set
Enriched(record, brief) ==
    [record EXCEPT !.cartaEnrichment =
        <<[portMentioned |-> brief = "port", vesselMentioned |-> brief = "vessel"]>>]

\* enrichFromCarta after its awaits: loadAll(), set, saveAll() in one turn
enrichFromCarta(portCallId, brief) ==
    /\ portCallId \in enriching
    /\ enriching' = enriching \ {portCallId}
    /\ IF brief = "none" \/ portCalls[portCallId] = <<>>
       THEN UNCHANGED portCalls
       ELSE portCalls' = [portCalls EXCEPT ![portCallId] = <<Enriched(@[1], brief)>>]
    /\ UNCHANGED <<besidesCalls, reply>>

---------------------------------------------------------------------------
(* Demurrage and detention (D&D tracker) *)

DAY == 86400000

DEFAULT_RULES ==
    [freeDaysDemurrage |-> 5, freeDaysDetention |-> 7,
     dailyRateDemurrage |-> 75, dailyRateDetention |-> 50]

Floor0(x) == IF x < 0 THEN 0 ELSE x

\* daysBetween(from, to): whole days, never negative; to = NULL is Date.now()
daysBetween(from, to) ==
    Floor0(((IF to # NULL THEN to ELSE now) - from) \div DAY)

\* the demurrage days of one container: at port from discharge to delivery,
\* else to return, else to now, less the free days
DemurrageDaysOf(con, r) ==
    IF con.dischargeDate # NULL
    THEN Floor0(daysBetween(con.dischargeDate,
                            IF con.deliveryDate # NULL THEN con.deliveryDate
                            ELSE con.returnDate)
                - r.freeDaysDemurrage)
    ELSE 0

\* the detention days of one container: delivered and not yet returned
DetentionDaysOf(con, r) ==
    IF con.deliveryDate # NULL /\ con.returnDate = NULL
    THEN Floor0(daysBetween(con.deliveryDate, NULL) - r.freeDaysDetention)
    ELSE 0

\* the running total of the loop over the containers
RECURSIVE TotalDays(_)
TotalDays(days) ==
    IF days = <<>> THEN 0 ELSE Head(days) + TotalDays(Tail(days))

\* computeLiability(record): a CLEARED record leaves the loop at once
computeLiability(record) ==
    LET cleared == record.status = "CLEARED"
        dem == IF cleared THEN 0
               ELSE TotalDays([i \in 1..Len(record.containers) |->
                               DemurrageDaysOf(record.containers[i], record.rules)])
        det == IF cleared THEN 0
               ELSE TotalDays([i \in 1..Len(record.containers) |->
                               DetentionDaysOf(record.containers[i], record.rules)])
        demUsd == dem * record.rules.dailyRateDemurrage
        detUsd == det * record.rules.dailyRateDetention
    IN  [record EXCEPT !.demurrageDays = dem,
                       !.detentionDays = det,
                       !.demurrageUsd = demUsd,
                       !.detentionUsd = detUsd,
                       !.totalLiabilityUsd = demUsd + detUsd,
                       !.status = IF cleared THEN "CLEARED"
                                  ELSE IF dem > 0 /\ det > 0 THEN "BOTH"
                                  ELSE IF dem > 0 THEN "DEMURRAGE"
                                  ELSE IF det > 0 THEN "DETENTION"
                                  ELSE "FREE"]

\* the alert check of upsertDD and refreshAllDD, without the latch
AlertDue_NoLatch(record) ==
    /\ record.alertThresholdUsd # NULL
    /\ record.totalLiabilityUsd >= record.alertThresholdUsd

\* the alert check of upsertDD and refreshAllDD
AlertDue(record) ==
    /\ record.alertThresholdUsd # NULL
    /\ record.totalLiabilityUsd >= record.alertThresholdUsd
    /\ ~record.alertFired

\* _onDDUpdate(event, record)
DDBroadcast(event, blNumber, record) ==
    [event |-> event, blNumber |-> blNumber,
     totalLiabilityUsd |-> record.totalLiabilityUsd,
     alertThresholdUsd |-> record.alertThresholdUsd]

\* the record after the alert check, and what the check broadcasts
AlertChecked(record) ==
    IF AlertDue(record) THEN [record EXCEPT !.alertFired = TRUE] ELSE record

AlertBroadcast(blNumber, record) ==
    IF AlertDue(record)
    THEN <<DDBroadcast("DD_ALERT", blNumber, AlertChecked(record))>>
    ELSE <<>>

\* the merge of upsertDD: a container of that number is replaced by the
\* spread of old and new, another one is appended
MergeContainer(containers, newCon) ==
    IF \E i \in 1..Len(containers) : containers[i].containerNumber = newCon.containerNumber
    THEN [i \in 1..Len(containers) |->
            IF containers[i].containerNumber = newCon.containerNumber
            THEN newCon ELSE containers[i]]
    ELSE Append(containers, newCon)

\* upsertDD(input) with one container; threshold <<>> is an absent input
upsertDD(blNumber, newCon, threshold) ==
    /\ reply.n < MaxCalls
    /\ LET merged ==
             IF dd[blNumber] # <<>>
             THEN [dd[blNumber][1] EXCEPT
                     !.containers = MergeContainer(@, newCon),
                     !.alertThresholdUsd = IF threshold # <<>> THEN threshold[1] ELSE @]
             ELSE [containers        |-> <<newCon>>,
                   rules             |-> DEFAULT_RULES,
                   status            |-> "FREE",
                   demurrageDays     |-> 0,
                   detentionDays     |-> 0,
                   demurrageUsd      |-> 0,
                   detentionUsd      |-> 0,
                   totalLiabilityUsd |-> 0,
                   alertThresholdUsd |-> IF threshold # <<>> THEN threshold[1] ELSE NULL,
                   alertFired        |-> FALSE]
           record == computeLiability(merged)
       IN  /\ dd' = [dd EXCEPT ![blNumber] = <<AlertChecked(record)>>]
           /\ ddEvents' = ddEvents \o AlertBroadcast(blNumber, record)
                            \o <<DDBroadcast("DD_UPDATE", blNumber, AlertChecked(record))>>
    /\ reply' = Answer("upsertDD", blNumber, TRUE, "")
    /\ UNCHANGED besidesDD

\* clearDD(blNumber): open containers are returned today, status CLEARED
clearDD(blNumber) ==
    /\ reply.n < MaxCalls
    /\ IF dd[blNumber] = <<>>
       THEN /\ reply' = Answer("clearDD", blNumber, FALSE, "not found")
            /\ UNCHANGED demurrage
       ELSE LET old == dd[blNumber][1]
                rd  == (now \div DAY) * DAY
                returned == [i \in 1..Len(old.containers) |->
                               IF old.containers[i].returnDate = NULL
                               THEN [old.containers[i] EXCEPT !.returnDate = rd]
                               ELSE old.containers[i]]
                record == computeLiability([old EXCEPT !.containers = returned,
                                                       !.status = "CLEARED"])
            IN  /\ dd' = [dd EXCEPT ![blNumber] = <<record>>]
                /\ ddEvents' = Append(ddEvents, DDBroadcast("DD_CLEARED", blNumber, record))
                /\ reply' = Answer("clearDD", blNumber, TRUE, "")
    /\ UNCHANGED besidesDD

\* refreshAllDD(): every record of the index that is not CLEARED, in index order
RECURSIVE RefreshAlerts(_)
RefreshAlerts(numbers) ==
    IF numbers = <<>> THEN <<>>
    ELSE LET n == Head(numbers)
         IN  (IF dd[n] # <<>> /\ dd[n][1].status # "CLEARED"
              THEN AlertBroadcast(n, computeLiability(dd[n][1]))
              ELSE <<>>) \o RefreshAlerts(Tail(numbers))

refreshAllDD ==
    /\ reply.n < MaxCalls
    /\ dd' = [n \in BlNumbers |->
                IF dd[n] # <<>> /\ dd[n][1].status # "CLEARED"
                THEN <<AlertChecked(computeLiability(dd[n][1]))>>
                ELSE dd[n]]
    /\ ddEvents' = ddEvents \o RefreshAlerts(BlSeq)
    /\ reply' = Answer("refreshAllDD", "", TRUE, "")
    /\ UNCHANGED besidesDD

---------------------------------------------------------------------------
(* The 24-hour track of a vessel profile (agent/vessel-registry.ts) *)

PROFILE_TAKE == 500
TRACK_TARGET == 100

\* Math.max(1, Math.floor(positions.length / 100))
TrackStep(length) ==
    IF length \div TRACK_TARGET < 1 THEN 1 ELSE length \div TRACK_TARGET

\* positions.filter((_, i) => i % step === 0).reverse(): the indices kept, of
\* the positions newest first, in the order of the track
ThinnedTrack(length) ==
    LET kept == SelectSeq([k \in 1..length |-> k - 1],
                          LAMBDA i : i % TrackStep(length) = 0)
    IN  [k \in 1..Len(kept) |-> kept[Len(kept) + 1 - k]]

\* getVesselProfile(imo) for a vessel with that many positions in the last
\* 24 h: the query takes 500, no position gives null
getVesselProfile(stored) ==
    /\ LET length == IF stored > PROFILE_TAKE THEN PROFILE_TAKE ELSE stored
       IN  profile' = IF length = 0 THEN <<>>
                      ELSE <<[stored |-> stored, track |-> ThinnedTrack(length)]>>
    /\ UNCHANGED besidesProfile

---------------------------------------------------------------------------
(* evaluateAlerts and what its callers do with the result *)

\* evaluateAlerts(code) up to its await: loadRules, loadAlerts, and the two
\* calls of Promise.all
BeginEval(rec, code, c) ==
    LET u  == toUpperCase(code)
        cc == CongestionCall(c, u)
        pa == PreArrivalCall(u)
    IN  [rec EXCEPT !.pc = "eval", !.port = code, !.r = loadRules,
                    !.existing = loadAlerts(code),
                    !.preSt = pa.st, !.pre = pa.val, !.window = 48,
                    !.congSt = cc.st, !.cong = cc.val,
                    !.fired = <<>>, !.fan = <<>>,
                    !.dirAtCall = dir[u], !.hitAtCall = CacheHitIn(c, u),
                    !.evaluated = @ \cup {u}]

\* for (const agent of subscribers) for (const alert of fired)
FanPairs(code, fired) ==
    LET subs == getAgentsForPort(code)
    IN  [k \in 1..(Len(subs) * Len(fired)) |->
            [agent   |-> subs[((k - 1) \div Len(fired)) + 1],
             alertId |-> fired[((k - 1) % Len(fired)) + 1].id]]

\* sendTelegramAlert returns false without a fetch for an agent not configured
RECURSIVE SkipUnconfigured(_)
SkipUnconfigured(fan) ==
    IF fan = <<>> THEN <<>>
    ELSE IF TelegramConfigured(Head(fan).agent) THEN fan
    ELSE SkipUnconfigured(Tail(fan))

\* the fetch of sendTelegramAlert: no AbortSignal
TelegramFetch(pair) ==
    [alertId |-> pair.alertId, channel |-> "agent-telegram",
     timeoutMs |-> NO_TIMEOUT, status |-> "pending"]

\* the sweep's loop over watchedPorts, at the head of rec.watched
NextWatched(rec, att, c) ==
    IF rec.watched = <<>>
    THEN [rec |-> [rec EXCEPT !.pc = "done", !.status = 200], att |-> att]
    ELSE [rec |-> BeginEval(rec, Head(rec.watched), c), att |-> att]

\* the caller once the fan-out of a pass is over
AfterFanout(rec, att) ==
    IF rec.kind = "rest"
    THEN [rec |-> [rec EXCEPT !.pc = "done", !.status = 200], att |-> att]
    ELSE NextWatched([rec EXCEPT !.watched = Tail(rec.watched)], att, cache)

\* the fan-out loop from the pair at the head of fan
SendFrom(rec, fan, att) ==
    LET todo == SkipUnconfigured(fan)
    IN  IF todo = <<>>
        THEN AfterFanout([rec EXCEPT !.fan = <<>>], att)
        ELSE [rec |-> [rec EXCEPT !.pc = "tg_await", !.fan = todo, !.att = Len(att) + 1],
              att |-> Append(att, TelegramFetch(Head(todo)))]

\* the caller after `await evaluateAlerts(portCode)` returned rec.fired
AfterEval(rec, att) ==
    SendFrom(rec, IF rec.fired = <<>> THEN <<>> ELSE FanPairs(rec.port, rec.fired), att)

\* the caller after `await evaluateAlerts(portCode)` threw
AfterReject(rec, att) ==
    IF rec.kind = "rest"
    THEN [rec |-> [rec EXCEPT !.pc = "done", !.status = 500], att |-> att]
    ELSE NextWatched([rec EXCEPT !.watched = Tail(rec.watched),
                                 !.failedAt = @ \cup {toUpperCase(rec.port)}], att, cache)

\* POST /api/agent/alerts/:portCode/evaluate
RestEvaluate(p, code) ==
    /\ proc[p].pc = "idle"
    /\ proc' = [proc EXCEPT ![p] = BeginEval([IdleProc EXCEPT !.kind = "rest"], code, cache)]
    /\ UNCHANGED <<desk, now, dir, positions, cache, checklists, rules, notify, alertLog,
                   nextId, attempts, events, agents, lastAck, congLog, ticks>>

\* the positions query of getPreArrivalVessels answers, or rejects
PreArrivalResume(p, ok) ==
    /\ proc[p].pc \in {"eval", "query"}
    /\ proc[p].preSt = "query"
    /\ proc' = [proc EXCEPT ![p] =
           IF ok
           THEN [@ EXCEPT !.preSt = "done",
                          !.pre = <<PreArrivalReport(toUpperCase(proc[p].port),
                                        findManyPositions(Since(12), PREARRIVAL_TAKE), proc[p].window, now)>>]
           ELSE [@ EXCEPT !.preSt = "failed"]]
    /\ UNCHANGED <<desk, now, dir, positions, cache, checklists, rules, notify, alertLog,
                   nextId, attempts, events, agents, lastAck, congLog, ticks>>

\* the positions query of getPortCongestion answers, or rejects
CongestionResume(p, ok) ==
    /\ proc[p].pc \in {"eval", "query"}
    /\ proc[p].congSt = "query"
    /\ IF ok
       THEN /\ CongestionCompute(toUpperCase(proc[p].port))
            /\ proc' = [proc EXCEPT ![p] =
                   [@ EXCEPT !.congSt = "done",
                             !.cong = <<CongestionData(toUpperCase(proc[p].port),
                                           findManyPositions(Since(6), CONGESTION_TAKE), now)>>]]
       ELSE /\ proc' = [proc EXCEPT ![p] = [@ EXCEPT !.congSt = "failed"]]
            /\ UNCHANGED <<cache, congLog, attempts>>
    /\ UNCHANGED <<desk, now, dir, positions, checklists, rules, notify, alertLog,
                   nextId, events, agents, lastAck, ticks>>

\* the lines of a file that were there when the model starts (ids from 1000)
Backlog(log) ==
    SelectSeq(log, LAMBDA l : Parses(l) /\ l.id >= 1000)

\* evaluateAlerts from the return of Promise.all to `return fired`, and the
\* caller up to its next await
EvalFinish(p) ==
    LET rec   == proc[p]
        u     == toUpperCase(rec.port)
        cands == Triggered(rec.port, rec.r, rec.pre, rec.cong, listOpenChecklists)
        fired == FiredAlerts(rec.port, rec.existing, cands, now)
        after == AfterEval([rec EXCEPT !.fired = fired],
                           attempts \o DeliverAll(fired, notify))
    IN  /\ rec.pc = "eval"
        /\ rec.preSt = "done"
        /\ rec.congSt = "done"
        /\ Len(alertLog[u]) + Len(fired) <= MaxLog + Len(Backlog(alertLog[u]))
        /\ alertLog' = [alertLog EXCEPT ![u] = @ \o fired]
        /\ nextId' = nextId + Len(fired)
        /\ events' = [events EXCEPT ![u] = @ \o CallsAll(fired, notify)]
        /\ attempts' = after.att
        /\ proc' = [proc EXCEPT ![p] = after.rec]
        /\ UNCHANGED <<desk, now, dir, positions, cache, checklists, rules, notify,
                       agents, lastAck, congLog, ticks>>

\* Promise.all rejected: evaluateAlerts throws into the caller's catch
EvalReject(p) ==
    LET after == AfterReject(proc[p], attempts)
    IN  /\ proc[p].pc = "eval"
        /\ "failed" \in {proc[p].preSt, proc[p].congSt}
        /\ "query" \notin {proc[p].preSt, proc[p].congSt}
        /\ attempts' = after.att
        /\ proc' = [proc EXCEPT ![p] = after.rec]
        /\ UNCHANGED <<desk, now, dir, positions, cache, checklists, rules, notify, alertLog,
                       nextId, events, agents, lastAck, congLog, ticks>>

\* the fetch of sendTelegramAlert settles: res.ok, or an error caught
TelegramRespond(p, outcome) ==
    LET rec   == proc[p]
        att   == [attempts EXCEPT ![rec.att].status = outcome]
        after == SendFrom(rec, Tail(rec.fan), att)
    IN  /\ rec.pc = "tg_await"
        /\ attempts' = after.att
        /\ proc' = [proc EXCEPT ![p] = after.rec]
        /\ UNCHANGED <<desk, now, dir, positions, cache, checklists, rules, notify, alertLog,
                       nextId, events, agents, lastAck, congLog, ticks>>

\* the response is sent, or the interval callback returns
Recycle(p) ==
    /\ proc[p].pc = "done"
    /\ proc' = [proc EXCEPT ![p] = IdleProc]
    /\ UNCHANGED <<desk, now, dir, positions, cache, checklists, rules, notify, alertLog,
                   nextId, attempts, events, agents, lastAck, congLog, ticks>>

---------------------------------------------------------------------------
(* The periodic sweep (main, setInterval) *)

\* getTopCongestedPorts: the loop `for (const port of ports)` runs on without
\* leaving the callback while getPortCongestion is answered by the cache
RECURSIVE TopSkip(_, _)
TopSkip(top, c) ==
    IF top = <<>> THEN <<>>
    ELSE IF CongestionCall(c, Head(top)).st = "done" THEN TopSkip(Tail(top), c)
    ELSE top

\* the sweep from the port at the head of top: the next positions query of
\* getTopCongestedPorts, or, when it has returned, the watched ports
TopAdvance(rec, top, att, c) ==
    LET todo == TopSkip(top, c)
    IN  IF todo # <<>>
        THEN [rec |-> [rec EXCEPT !.pc = "top_query", !.top = todo, !.port = Head(todo)],
              att |-> att]
        ELSE NextWatched([rec EXCEPT !.top = <<>>, !.watched = WatchedPorts,
                                     !.subscribed = {WatchedPorts[i] : i \in 1..Len(WatchedPorts)}],
                         att, c)

\* the interval fires: getTopCongestedPorts(20) issues prisma.port.findMany
SweepStart(p) ==
    /\ proc[p].pc = "idle"
    /\ proc' = [proc EXCEPT ![p] = [IdleProc EXCEPT !.kind = "sweep", !.pc = "top_list"]]
    /\ UNCHANGED <<desk, now, dir, positions, cache, checklists, rules, notify, alertLog,
                   nextId, attempts, events, agents, lastAck, congLog, ticks>>

\* findMany({ lat: not null, lng: not null }) answers, or rejects into the
\* outer catch of the callback
SweepTopList(p, ok) ==
    LET after == TopAdvance(proc[p], SelectSeq(PortOrder, LAMBDA u: dir[u] = "ok"),
                            attempts, cache)
    IN  /\ proc[p].pc = "top_list"
        /\ proc' = [proc EXCEPT ![p] =
               IF ok THEN after.rec ELSE [@ EXCEPT !.pc = "done", !.status = 500]]
        /\ UNCHANGED <<desk, now, dir, positions, cache, checklists, rules, notify, alertLog,
                       nextId, attempts, events, agents, lastAck, congLog, ticks>>

\* the positions query of a getPortCongestion of getTopCongestedPorts answers,
\* or rejects into the outer catch of the callback
SweepTopResume(p, ok) ==
    LET rec == proc[p]
    IN  /\ rec.pc = "top_query"
        /\ IF ok
           THEN /\ CongestionCompute(Head(rec.top))
                /\ proc' = [proc EXCEPT ![p] =
                       TopAdvance(rec, Tail(rec.top), attempts, cache').rec]
           ELSE /\ proc' = [proc EXCEPT ![p] =
                       [@ EXCEPT !.pc = "done", !.status = 500,
                                 !.failedAt = @ \cup {Head(rec.top)}]]
                /\ UNCHANGED <<cache, congLog, attempts>>
        /\ UNCHANGED <<desk, now, dir, positions, checklists, rules, notify, alertLog,
                       nextId, events, agents, lastAck, ticks>>

---------------------------------------------------------------------------
(* The REST queries and the acknowledge handler (main) *)

\* GET /api/congestion/:portCode
QueryCongestion(p, code) ==
    LET u  == toUpperCase(code)
        cc == CongestionCall(cache, u)
    IN  /\ proc[p].pc = "idle"
        /\ proc' = [proc EXCEPT ![p] =
               [IdleProc EXCEPT !.kind = "getcong", !.pc = "query", !.port = code,
                                !.congSt = cc.st, !.cong = cc.val, !.preSt = "done",
                                !.dirAtCall = dir[u], !.hitAtCall = CacheHit(u)]]
        /\ UNCHANGED <<desk, now, dir, positions, cache, checklists, rules, notify, alertLog,
                       nextId, attempts, events, agents, lastAck, congLog, ticks>>

\* GET /api/agent/pre-arrival/:portCode?window=
QueryPreArrival(p, code, window) ==
    LET u  == toUpperCase(code)
        pa == PreArrivalCall(u)
    IN  /\ proc[p].pc = "idle"
        /\ proc' = [proc EXCEPT ![p] =
               [IdleProc EXCEPT !.kind = "getpre", !.pc = "query", !.port = code,
                                !.window = window,
                                !.preSt = pa.st, !.pre = pa.val, !.congSt = "done",
                                !.dirAtCall = dir[u]]]
        /\ UNCHANGED <<desk, now, dir, positions, cache, checklists, rules, notify, alertLog,
                       nextId, attempts, events, agents, lastAck, congLog, ticks>>

\* if (!data) return res.status(404) ...; res.json(data); catch: 500
QueryRespond(p) ==
    LET rec == proc[p]
        val == IF rec.kind = "getcong" THEN rec.cong ELSE rec.pre
    IN  /\ rec.pc = "query"
        /\ "query" \notin {rec.preSt, rec.congSt}
        /\ proc' = [proc EXCEPT ![p] =
               [@ EXCEPT !.pc = "done",
                         !.status = IF "failed" \in {rec.preSt, rec.congSt} THEN 500
                                    ELSE IF val = <<>> THEN 404 ELSE 200]]
        /\ UNCHANGED <<desk, now, dir, positions, cache, checklists, rules, notify, alertLog,
                       nextId, attempts, events, agents, lastAck, congLog, ticks>>

\* POST /api/agent/alerts/:portCode/:alertId/ack, acknowledgeAlert
acknowledgeAlert(code, alertId) ==
    LET u == toUpperCase(toUpperCase(code))
        a == acknowledgeAlertLines(alertLog[u], alertId)
    IN  /\ alertLog' = [alertLog EXCEPT ![u] = a.lines]
        /\ lastAck' = <<[port |-> u, alertId |-> alertId, found |-> a.found,
                         status |-> IF a.found THEN 200 ELSE 404]>>
        /\ UNCHANGED <<desk, now, dir, positions, cache, checklists, rules, notify,
                       nextId, attempts, events, agents, proc, congLog, ticks>>

---------------------------------------------------------------------------
(* The environment: the clock, the tables, the endpoints, the agents *)

Tick(d, max) ==
    /\ ticks < max
    /\ now' = now + d
    /\ ticks' = ticks + 1
    /\ UNCHANGED <<desk, dir, positions, cache, checklists, rules, notify, alertLog,
                   nextId, attempts, events, agents, proc, lastAck, congLog>>

\* the port table is written by its owner
PortTableChange(u, st) ==
    /\ dir[u] # st
    /\ dir' = [dir EXCEPT ![u] = st]
    /\ UNCHANGED <<desk, now, positions, cache, checklists, rules, notify, alertLog,
                   nextId, attempts, events, agents, proc, lastAck, congLog, ticks>>

\* a position report is stored
ReportPosition(row) ==
    /\ Len(positions) < MaxRows
    /\ positions' = Append(positions, [row EXCEPT !.timestamp = now])
    /\ UNCHANGED <<desk, now, dir, cache, checklists, rules, notify, alertLog,
                   nextId, attempts, events, agents, proc, lastAck, congLog, ticks>>

\* a fetch with AbortSignal.timeout settles: answered, failed, or aborted
DeliverySettle(i, outcome) ==
    /\ i \in 1..Len(attempts)
    /\ attempts[i].status = "pending"
    /\ attempts[i].timeoutMs > 0
    /\ attempts' = [attempts EXCEPT ![i].status = outcome]
    /\ UNCHANGED <<desk, now, dir, positions, cache, checklists, rules, notify, alertLog,
                   nextId, events, agents, proc, lastAck, congLog, ticks>>

\* PUT /api/agents/me/ports, updateAgentPorts
updateAgentPorts(a, ports) ==
    /\ agents[a].ports # {toUpperCase(c) : c \in ports}
    /\ agents' = [agents EXCEPT ![a].ports = {toUpperCase(c) : c \in ports}]
    /\ UNCHANGED <<desk, now, dir, positions, cache, checklists, rules, notify, alertLog,
                   nextId, attempts, events, proc, lastAck, congLog, ticks>>

\* PUT /api/agents/me/telegram, updateAgentTelegram
updateAgentTelegram(a, enabled) ==
    /\ agents[a].tg # enabled
    /\ agents' = [agents EXCEPT ![a].tg = enabled]
    /\ UNCHANGED <<desk, now, dir, positions, cache, checklists, rules, notify, alertLog,
                   nextId, attempts, events, proc, lastAck, congLog, ticks>>

---------------------------------------------------------------------------
(* Initial states *)

\* the clock when the server has started
StartTime == 24 * HOUR

Row(v, place, speed, heading, nav, ts) ==
    [vesselId |-> v, place |-> place, speed |-> speed, heading |-> heading,
     navigationStatus |-> nav, timestamp |-> ts]

\* two vessels stopped off INNSA (score 30, level high)
SceneAnchored ==
    <<Row("V1", "anch3", 100, NULL, 1, StartTime - HOUR),
      Row("V2", "anch8", 200, NULL, NULL, StartTime - HOUR)>>

\* one vessel 30 nm off INNSA, heading for it at 10 kn (ETA 3.0 h)
SceneInbound ==
    <<Row("V3", "in30", 1000, 1000, 0, StartTime - HOUR)>>

NoChecklists == <<>>

EmptyCache == [u \in UpperPorts |-> <<>>]

NoSubscriptions == [a \in Agents |-> [ports |-> {}, tg |-> FALSE]]

\* the agent desk at start: nobody registered, nothing drawn, nothing asked
NoReply == [n |-> 0, op |-> "none", arg |-> "", ok |-> TRUE, error |-> ""]

InitDesk ==
    /\ registry = [k \in EmailKeys |-> <<>>]
    /\ issued = 0
    /\ reply = NoReply
    /\ bls = [n \in BlNumbers |-> <<>>]
    /\ portCalls = [id \in PortCallIds |-> <<>>]
    /\ enriching = {}
    /\ dd = [n \in BlNumbers |-> <<>>]
    /\ ddEvents = <<>>
    /\ profile = <<>>

InitCommon ==
    /\ now = StartTime
    /\ ticks = 0
    /\ cache = EmptyCache
    /\ rules = DefaultRules
    /\ alertLog = [u \in UpperPorts |-> <<>>]
    /\ nextId = 1
    /\ attempts = <<>>
    /\ events = [u \in UpperPorts |-> <<>>]
    /\ congLog = <<>>
    /\ lastAck = <<>>
    /\ proc = [p \in Procs |-> IdleProc]
    /\ InitDesk

---------------------------------------------------------------------------
(* Spec: on-demand evaluation passes that may overlap, and acknowledgements *)

\* the port codes the requests of this specification name
EvalCodes == {"innsa"}
AckCodes == {"INNSA", "SGSIN"}

\* the ids an acknowledge request may name: every id drawn, and one never drawn
AlertIds ==
    UNION {{alertLog[u][i].id : i \in {j \in 1..Len(alertLog[u]) : Parses(alertLog[u][j])}} :
              u \in UpperPorts} \cup {0}

Init ==
    /\ InitCommon
    /\ dir = [u \in UpperPorts |-> "ok"]
    /\ positions \in {SceneAnchored, SceneInbound}
    /\ checklists = NoChecklists
    /\ notify = {}
    /\ agents = NoSubscriptions

Next ==
    \/ \E p \in Procs, code \in EvalCodes : RestEvaluate(p, code)
    \/ \E p \in Procs : PreArrivalResume(p, TRUE)
    \/ \E p \in Procs : CongestionResume(p, TRUE)
    \/ \E p \in Procs : EvalFinish(p)
    \/ \E p \in Procs : Recycle(p)
    \/ \E code \in AckCodes, id \in AlertIds : acknowledgeAlert(code, id)

Spec == Init /\ [][Next]_vars

---------------------------------------------------------------------------
(* SpecSeq: one evaluation pass at a time, acknowledgements, and a clock   *)
(* that reaches the edges of the dedup window                              *)

\* 1 ms less than the dedup window, and 1 ms: the sums reach the window's edge
TickSteps == {DEDUP_WINDOW - 1, 1}

NextSeq ==
    \/ \E code \in EvalCodes : RestEvaluate("p1", code)
    \/ PreArrivalResume("p1", TRUE)
    \/ CongestionResume("p1", TRUE)
    \/ EvalFinish("p1")
    \/ Recycle("p1")
    \/ \E id \in AlertIds \ {0} : acknowledgeAlert("INNSA", id)
    \/ \E d \in TickSteps : Tick(d, MaxTicks)

SpecSeq == Init /\ [][NextSeq]_vars

---------------------------------------------------------------------------
(* Properties of the alert log *)

\* the log holds an unacknowledged alert of (type, imo) less than 60 min old
RecentUnacked(log, type, imo, t) ==
    \E i \in 1..Len(log) :
        /\ log[i].type = type
        /\ log[i].imo = imo
        /\ ~log[i].acknowledged
        /\ t - log[i].ts < 60 * 60000

\* the step of p returns from evaluateAlerts with its list of fired alerts
PassReturns(p) ==
    proc[p].pc = "eval" /\ proc'[p].pc # "eval"

\* the alerts the step appends to the log of u
Appended(u) ==
    SubSeq(alertLog'[u], Len(alertLog[u]) + 1, Len(alertLog'[u]))

\* the step of p persists an alert for the rule candidate c
Persists(p, c) ==
    \E i \in 1..Len(Appended(toUpperCase(proc[p].port))) :
        /\ Appended(toUpperCase(proc[p].port))[i].type = c.type
        /\ Appended(toUpperCase(proc[p].port))[i].imo = c.imo
        /\ Appended(toUpperCase(proc[p].port))[i].ts = now

\* the rule candidates of the pass of p that is about to return
CandidatesOf(p) ==
    Triggered(proc[p].port, proc[p].r, proc[p].pre, proc[p].cong, listOpenChecklists)

C2_NoDuplicateInWindow ==
    \A u \in UpperPorts : \A i, j \in 1..Len(alertLog[u]) :
        (/\ i < j
         /\ alertLog[u][i].type = alertLog[u][j].type
         /\ alertLog[u][i].imo = alertLog[u][j].imo
         /\ ~alertLog[u][i].acknowledged
         /\ ~alertLog[u][j].acknowledged)
            => alertLog[u][j].ts - alertLog[u][i].ts >= 60 * 60000

\* the alert with every field but `acknowledged`
Content(a) ==
    [a EXCEPT !.acknowledged = FALSE]

\* the step is the call acknowledgeAlert(u, id) that found the alert
AckStep(u, id) ==
    /\ lastAck' # <<>>
    /\ lastAck'[1].port = u
    /\ lastAck'[1].alertId = id
    /\ lastAck'[1].found

\* C3: every step leaves each stored alert in place with every field
\* unchanged, except that `acknowledged` may go from false to true, and then
\* the step is acknowledgeAlert for that alert; new alerts are added at the
\* end only, unacknowledged
C3_AppendOnly ==
    [][\A u \in UpperPorts :
          /\ Len(alertLog'[u]) >= Len(alertLog[u])
          /\ \A i \in 1..Len(alertLog[u]) :
                /\ Content(alertLog'[u][i]) = Content(alertLog[u][i])
                /\ alertLog[u][i].acknowledged => alertLog'[u][i].acknowledged
                /\ alertLog'[u][i].acknowledged # alertLog[u][i].acknowledged
                      => AckStep(u, alertLog[u][i].id)
          /\ \A i \in (Len(alertLog[u]) + 1)..Len(alertLog'[u]) :
                ~alertLog'[u][i].acknowledged]_vars

\* C3 witness: a log of several alerts, an earlier one acknowledged and a
\* later one appended after it
C3_Witness ==
    /\ Len(alertLog["INNSA"]) >= 3
    /\ alertLog["INNSA"][1].acknowledged
    /\ ~alertLog["INNSA"][2].acknowledged
    /\ alertLog["INNSA"][3].acknowledged

\* C4: acknowledgeAlert answers true exactly when the port's log holds an
\* alert with the id, acknowledged or not; a false answer leaves the log
\* unchanged; a true answer leaves every line but the matching one unchanged
\* and the matching one acknowledged; and the same call again changes nothing
\* and gives the same answer
C4_AckIdempotent ==
    [][/\ lastAck' # lastAck =>
            LET a      == lastAck'[1]
                before == alertLog[a.port]
                after  == alertLog'[a.port]
            IN  /\ a.found <=> \E i \in 1..Len(before) : before[i].id = a.alertId
                /\ a.status = IF a.found THEN 200 ELSE 404
                /\ ~a.found => alertLog' = alertLog
                /\ Len(after) = Len(before)
                /\ \A i \in 1..Len(before) :
                      after[i] = IF before[i].id = a.alertId
                                 THEN [before[i] EXCEPT !.acknowledged = TRUE]
                                 ELSE before[i]
                /\ acknowledgeAlertLines(after, a.alertId) = [lines |-> after, found |-> a.found]
       /\ lastAck' = lastAck =>
            \A u \in UpperPorts : \A i \in 1..Len(alertLog[u]) :
                i <= Len(alertLog'[u]) /\ alertLog'[u][i] = alertLog[u][i]]_vars

\* C4 witness: an acknowledgement found an alert that is now acknowledged in
\* a log that also holds another alert, still open
C4_Witness ==
    /\ lastAck # <<>>
    /\ lastAck[1].found
    /\ lastAck[1].port = "INNSA"
    /\ \E i, j \in 1..Len(alertLog["INNSA"]) :
          /\ alertLog["INNSA"][i].id = lastAck[1].alertId
          /\ alertLog["INNSA"][i].acknowledged
          /\ ~alertLog["INNSA"][j].acknowledged

---------------------------------------------------------------------------
(* SpecDeliver: evaluation passes with delivery channels configured, whose *)
(* requests are answered, fail, or run into their timeout                  *)

Outcomes == {"ok", "failed", "timeout"}

InitDeliver ==
    /\ InitCommon
    /\ dir = [u \in UpperPorts |-> "ok"]
    /\ positions \in {SceneAnchored, SceneInbound}
    /\ checklists = NoChecklists
    /\ notify \in {{"telegram"}, {"email", "webhook"}}
    /\ agents = NoSubscriptions

\* no further pass is started once this many delivery attempts were made
MaxAttempts == 3

NextDeliver ==
    \/ \E code \in EvalCodes : Len(attempts) < MaxAttempts /\ RestEvaluate("p1", code)
    \/ PreArrivalResume("p1", TRUE)
    \/ CongestionResume("p1", TRUE)
    \/ EvalFinish("p1")
    \/ Recycle("p1")
    \/ \E id \in AlertIds \ {0} : acknowledgeAlert("INNSA", id)
    \/ \E i \in 1..Len(attempts), o \in Outcomes : DeliverySettle(i, o)

SpecDeliver == InitDeliver /\ [][NextDeliver]_vars

\* the delivery attempts made for alert id on channel ch
AttemptsFor(att, id, ch) ==
    {i \in 1..Len(att) : att[i].alertId = id /\ att[i].channel = ch}

\* C5: an alert is in the log before any delivery attempt for it is made;
\* every alert has exactly one attempt on each enabled channel and none on
\* the others, whatever the outcome of any attempt; an attempt once made is
\* never repeated or reopened; and the list a pass returns is the list of
\* alerts it persisted, which the snapshot of the log and the triggered rules
\* determine alone
C5_PersistThenDeliverOnce ==
    [][/\ \A u \in UpperPorts : \A i \in 1..Len(events'[u]) :
              events'[u][i].op = "fetch" =>
                  /\ \E j \in 1..(i - 1) :
                        /\ events'[u][j].op = "persist"
                        /\ events'[u][j].alertId = events'[u][i].alertId
                  /\ \E k \in 1..Len(alertLog'[u]) :
                        alertLog'[u][k].id = events'[u][i].alertId
       /\ \A u \in UpperPorts : \A k \in 1..Len(alertLog'[u]) : \A ch \in Channels :
              Cardinality(AttemptsFor(attempts', alertLog'[u][k].id, ch))
                  = IF ch \in notify THEN 1 ELSE 0
       /\ Len(attempts') >= Len(attempts)
       /\ \A i \in 1..Len(attempts) :
              /\ attempts'[i].alertId = attempts[i].alertId
              /\ attempts'[i].channel = attempts[i].channel
              /\ attempts[i].status # "pending" => attempts'[i] = attempts[i]
       /\ \A p \in Procs : PassReturns(p) =>
              /\ proc'[p].fired = Appended(toUpperCase(proc[p].port))
              /\ \A k \in 1..Len(CandidatesOf(p)) :
                     Persists(p, CandidatesOf(p)[k])
                         <=> ~RecentUnacked(proc[p].existing, CandidatesOf(p)[k].type,
                                            CandidatesOf(p)[k].imo, now)]_vars

\* C5 witness: the first channel of an alert failed, the next one was
\* attempted all the same and ran into its timeout, and a later pass
\* persisted and delivered a further alert
C5_Witness ==
    \E i, j, k \in 1..Len(attempts) :
        /\ attempts[i].alertId = attempts[j].alertId
        /\ attempts[i].channel = "email"
        /\ attempts[i].status = "failed"
        /\ attempts[j].channel = "webhook"
        /\ attempts[j].status = "timeout"
        /\ attempts[k].alertId # attempts[i].alertId
        /\ Len(alertLog["INNSA"]) >= 2

---------------------------------------------------------------------------
(* SpecSweep: the periodic sweep with subscribed agents, queries that may  *)
(* reject, and Telegram endpoints that answer, fail, or stay silent         *)

\* a1 watches both ports and has Telegram configured, a2 watches one port
Subscriptions ==
    [a \in Agents |-> IF a = "a1" THEN [ports |-> {"INNSA", "SGSIN"}, tg |-> TRUE]
                                  ELSE [ports |-> {"INNSA"}, tg |-> FALSE]]

InitSweep ==
    /\ InitCommon
    /\ dir = [u \in UpperPorts |-> "ok"]
    /\ positions \in {SceneAnchored, SceneInbound}
    /\ checklists = NoChecklists
    /\ notify = {}
    /\ agents = Subscriptions

NextSweep ==
    \/ SweepStart("p1")
    \/ SweepTopList("p1", TRUE)
    \/ \E ok \in BOOLEAN : SweepTopResume("p1", ok)
    \/ \E ok \in BOOLEAN : PreArrivalResume("p1", ok)
    \/ \E ok \in BOOLEAN : CongestionResume("p1", ok)
    \/ EvalFinish("p1")
    \/ EvalReject("p1")
    \/ \E o \in {"ok", "failed"} : TelegramRespond("p1", o)
    \/ Recycle("p1")
    \/ \E a \in Agents : updateAgentTelegram(a, ~agents[a].tg)
    \/ Tick(CACHE_TTL_MS, MaxTicks)

SpecSweep == InitSweep /\ [][NextSweep]_vars

\* C6 as claimed: every delivery attempt is bounded by a timeout, and no
\* sweep with watched ports left to evaluate is held up waiting for a
\* notification endpoint to answer
C6_DeliveryNeverBlocks ==
    /\ \A p \in Procs :
          ~(/\ proc[p].kind = "sweep"
            /\ proc[p].pc = "tg_await"
            /\ Len(proc[p].watched) > 1
            /\ attempts[proc[p].att].status = "pending")
    /\ \A i \in 1..Len(attempts) : attempts[i].timeoutMs > 0

\* the ports at least one agent subscribes to
SubscribedPorts ==
    UNION {agents[a].ports : a \in Agents}

\* C7 as claimed: the ports a sweep evaluates are the subscribed ports, and
\* when the work on one port failed, in the cache refresh or in the alert
\* evaluation, the sweep has still evaluated every other subscribed port by
\* the time it ends
C7_SweepEvaluatesAllWatched ==
    \A p \in Procs :
        proc[p].kind = "sweep" =>
            /\ proc[p].evaluated \subseteq SubscribedPorts
            /\ proc[p].pc = "done" =>
                   \A u \in SubscribedPorts \ proc[p].failedAt : u \in proc[p].evaluated

---------------------------------------------------------------------------
(* SpecQuery: congestion and pre-arrival queries and evaluation passes on  *)
(* a port whose row in the port table comes, goes and loses coordinates     *)

QueryCodes == {"innsa", "SGSIN"}
DirStates == {"ok", "absent", "nocoords"}

\* 1 ms less than the cache TTL, and 1 ms
CacheTickSteps == {CACHE_TTL_MS - 1, 1}

InitQuery ==
    /\ InitCommon
    /\ dir \in [UpperPorts -> {"ok", "absent"}]
    /\ positions \in {SceneAnchored, SceneInbound}
    /\ checklists = NoChecklists
    /\ notify = {"webhook"}
    /\ agents = NoSubscriptions

NextQuery ==
    \/ \E code \in QueryCodes : QueryCongestion("p1", code)
    \/ \E code \in QueryCodes : QueryPreArrival("p1", code, 48)
    \/ \E code \in EvalCodes : RestEvaluate("p1", code)
    \/ PreArrivalResume("p1", TRUE)
    \/ CongestionResume("p1", TRUE)
    \/ QueryRespond("p1")
    \/ EvalFinish("p1")
    \/ Recycle("p1")
    \/ \E st \in DirStates : PortTableChange("INNSA", st)
    \/ \E d \in CacheTickSteps : Tick(d, MaxTicks)

SpecQuery == InitQuery /\ [][NextQuery]_vars

\* a query of kind k by p has been answered for a port that was unavailable
\* when the query was made
AnsweredUnavailable(p, k) ==
    /\ proc[p].kind = k
    /\ proc[p].pc = "done"
    /\ proc[p].dirAtCall # "ok"

\* C8 as claimed: a congestion or pre-arrival query for a port that has no
\* row or no coordinates when the query is made answers 404 with no data
C8_UnavailableAlways404 ==
    \A p \in Procs :
        /\ AnsweredUnavailable(p, "getcong") => proc[p].status = 404 /\ proc[p].cong = <<>>
        /\ AnsweredUnavailable(p, "getpre") => proc[p].status = 404 /\ proc[p].pre = <<>>

\* C8 amended: a pre-arrival query for a port without row or coordinates
\* always answers 404 with no report; a congestion query for such a port
\* answers 404 with no snapshot unless a snapshot of the port computed less
\* than 60 s before is in the cache, and then it answers 200 with that
\* snapshot; a 200 answer always carries a snapshot or report, also when it
\* counts no vessel
C8_Unavailable404UnlessCached ==
    \A p \in Procs :
        /\ AnsweredUnavailable(p, "getpre") => proc[p].status = 404 /\ proc[p].pre = <<>>
        /\ AnsweredUnavailable(p, "getcong") /\ ~proc[p].hitAtCall
              => proc[p].status = 404 /\ proc[p].cong = <<>>
        /\ AnsweredUnavailable(p, "getcong") /\ proc[p].hitAtCall
              => /\ proc[p].status = 200
                 /\ proc[p].cong # <<>>
                 /\ proc[p].cong[1].port.unlocode = toUpperCase(proc[p].port)
                 /\ proc[p].cong[1] = cache[toUpperCase(proc[p].port)][1].data
        /\ (proc[p].kind = "getcong" /\ proc[p].pc = "done")
              => (proc[p].status = 200 <=> proc[p].cong # <<>>)
        /\ (proc[p].kind = "getpre" /\ proc[p].pc = "done")
              => (proc[p].status = 200 <=> proc[p].pre # <<>>)

\* C8 witness: the port vanished after a successful query, its snapshot is
\* still stored but has expired, and the congestion query answered 404
C8_Witness ==
    /\ AnsweredUnavailable("p1", "getcong")
    /\ proc["p1"].status = 404
    /\ toUpperCase(proc["p1"].port) = "INNSA"
    /\ cache["INNSA"] # <<>>
    /\ now - cache["INNSA"][1].ts = 60000

\* C9 as claimed: an evaluation pass for a port without row or coordinates
\* returns an empty list, persists nothing and attempts no delivery
C9_UnavailableFiresNothing ==
    [][\A p \in Procs : (PassReturns(p) /\ proc[p].dirAtCall # "ok") =>
          /\ proc'[p].status = 200
          /\ proc'[p].fired = <<>>
          /\ alertLog' = alertLog
          /\ attempts' = attempts]_vars

\* C9 amended: an evaluation pass for a port without row or coordinates does
\* not throw and fires no vessel alert; it returns an empty list, persists
\* nothing and attempts no delivery unless a snapshot of the port computed
\* less than 60 s before is in the cache, and then the congestion rule is
\* evaluated on that snapshot as for any port
C9_UnavailableFiresNoVesselAlert ==
    [][\A p \in Procs : (PassReturns(p) /\ proc[p].dirAtCall # "ok") =>
          /\ proc'[p].status = 200
          /\ proc'[p].fired = Appended(toUpperCase(proc[p].port))
          /\ \A i \in 1..Len(proc'[p].fired) : proc'[p].fired[i].type = "HIGH_CONGESTION"
          /\ \A u \in UpperPorts : u # toUpperCase(proc[p].port) => alertLog'[u] = alertLog[u]
          /\ ~proc[p].hitAtCall =>
                /\ proc'[p].fired = <<>>
                /\ alertLog' = alertLog
                /\ attempts' = attempts]_vars

\* C9 witness: a pass for a port that had vanished, with an expired snapshot
\* in the cache, has returned the empty list
C9_Witness ==
    /\ proc["p1"].kind = "rest"
    /\ proc["p1"].pc = "done"
    /\ proc["p1"].dirAtCall = "nocoords"
    /\ ~proc["p1"].hitAtCall
    /\ proc["p1"].fired = <<>>
    /\ cache["INNSA"] # <<>>

---------------------------------------------------------------------------
(* SpecZones: congestion queries over fixes at the edges of the zones *)

ZonePlaces == {"anch8", "anch801", "appr20", "tran2001", "tran25", "out2501"}
ZoneSpeeds == {NULL, 200, 201, 500, 501}
ZoneNavs == {NULL, 0, 1, 5, 6}

\* what else is in the table: nothing, a moored vessel, a slow one, a far one
OtherFixes ==
    {<<>>,
     <<Row("V2", "anch3", 300, NULL, 5, StartTime - HOUR)>>,
     <<Row("V2", "appr15", 400, 9000, 0, StartTime - HOUR)>>,
     <<Row("V3", "in30", 1000, 1000, 0, StartTime - HOUR)>>}

InitZones ==
    /\ InitCommon
    /\ dir = [u \in UpperPorts |-> "ok"]
    /\ \E place \in ZonePlaces, speed \in ZoneSpeeds, nav \in ZoneNavs, other \in OtherFixes :
          positions = <<Row("V1", place, speed, NULL, nav, StartTime - HOUR)>> \o other
    /\ checklists = NoChecklists
    /\ notify = {}
    /\ agents = NoSubscriptions

NextZones ==
    \/ QueryCongestion("p1", "INNSA")
    \/ CongestionResume("p1", TRUE)
    \/ QueryRespond("p1")
    \/ Recycle("p1")

SpecZones == InitZones /\ [][NextZones]_vars

\* the most recent fix of each vessel: the last row stored for it
Fixes ==
    {positions[i] : i \in {k \in 1..Len(positions) :
        \A j \in (k + 1)..Len(positions) : positions[j].vesselId # positions[k].vesselId}}

\* the fixes within 25 nm of port u
Within25(u) ==
    {f \in Fixes : haversineNm(u, f.place) <= 2500}

\* the zone the rule gives the fix f near port u
ZoneByRule(u, f) ==
    IF /\ haversineNm(u, f.place) <= 800
       /\ \/ f.speed = NULL
          \/ f.speed <= 200
          \/ f.navigationStatus \in {1, 5, 6}
    THEN "anchorage"
    ELSE IF haversineNm(u, f.place) <= 2000 /\ (f.speed = NULL \/ f.speed <= 500)
         THEN "approach"
         ELSE "transit"

\* C10: in a snapshot, every most recent fix within 25 nm appears once with
\* the zone of the rule (anchorage iff <= 8 nm and (<= 2 kn or status 1, 5
\* or 6); else approach iff <= 20 nm and <= 5 kn; else transit; bounds
\* inclusive; no status: distance and speed decide), fixes beyond 25 nm do
\* not appear, and the three counts are the numbers of fixes per zone and
\* sum to the number of fixes within 25 nm
C10_ZoneClassification ==
    \A u \in UpperPorts : cache[u] # <<>> =>
        LET d == cache[u][1].data
        IN  /\ Len(d.vessels) = Cardinality(Within25(u))
            /\ \A f \in Within25(u) :
                  Cardinality({i \in 1..Len(d.vessels) :
                      d.vessels[i].name = f.vesselId
                      /\ d.vessels[i].zone = ZoneByRule(u, f)}) = 1
            /\ \A i \in 1..Len(d.vessels) :
                  \E f \in Within25(u) : f.vesselId = d.vessels[i].name
            /\ d.anchorageVessels
                  = Cardinality({f \in Within25(u) : ZoneByRule(u, f) = "anchorage"})
            /\ d.approachVessels
                  = Cardinality({f \in Within25(u) : ZoneByRule(u, f) = "approach"})
            /\ d.transitVessels
                  = Cardinality({f \in Within25(u) : ZoneByRule(u, f) = "transit"})
            /\ d.anchorageVessels + d.approachVessels + d.transitVessels
                  = Cardinality(Within25(u))

\* C10 witness: a fix at exactly 8.0 nm and 2.0 kn without navigation status
\* was counted as the one anchored vessel, beside a fix beyond 25 nm
C10_Witness ==
    /\ cache["INNSA"] # <<>>
    /\ cache["INNSA"][1].data.anchorageVessels = 1
    /\ Len(positions) = 2
    /\ positions[1].place = "anch8"
    /\ positions[1].speed = 200
    /\ positions[1].navigationStatus = NULL
    /\ positions[2].place = "in30"

---------------------------------------------------------------------------
(* SpecFleet: congestion queries over fleets of up to some thirty vessels  *)
(* off INNSA, so many at anchor, so many approaching, so many in transit   *)

MaxAnchored == 4
MaxApproach == 3
MaxTransit == 24

FleetNames ==
    <<"F01", "F02", "F03", "F04", "F05", "F06", "F07", "F08", "F09", "F10",
      "F11", "F12", "F13", "F14", "F15", "F16", "F17", "F18", "F19", "F20",
      "F21", "F22", "F23", "F24", "F25", "F26", "F27", "F28", "F29", "F30",
      "F31", "F32", "F33", "F34", "F35", "F36">>

\* the i-th row of a fleet: rows 1..nt in transit, then na stopped, then
\* the slow ones; places and speeds alternate within a kind
FleetRow(i, na, nt) ==
    IF i <= nt
    THEN IF i % 3 = 0 THEN Row(FleetNames[i], "tran22", 1200, 9000, 0, StartTime - HOUR)
         ELSE IF i % 3 = 1 THEN Row(FleetNames[i], "anch801", 501, 9000, 0, StartTime - HOUR)
         ELSE IF i % 6 = 2 THEN Row(FleetNames[i], "tran2496", 0, NULL, 1, StartTime - HOUR)
         ELSE Row(FleetNames[i], "tran25", 0, NULL, 1, StartTime - HOUR)
    ELSE IF i <= nt + na
    THEN IF i % 2 = 0 THEN Row(FleetNames[i], "anch8", 200, NULL, NULL, StartTime - HOUR)
         ELSE Row(FleetNames[i], "anch3", 900, NULL, 5, StartTime - HOUR)
    ELSE IF i % 2 = 0 THEN Row(FleetNames[i], "anch801", 200, NULL, 1, StartTime - HOUR)
         ELSE Row(FleetNames[i], "appr15", 500, 9000, 0, StartTime - HOUR)

Fleet(na, np, nt) ==
    [i \in 1..(na + np + nt) |-> FleetRow(i, na, nt)]

InitFleet ==
    /\ InitCommon
    /\ dir = [u \in UpperPorts |-> "ok"]
    /\ \E na \in 0..MaxAnchored, np \in 0..MaxApproach,
          nt \in {0, 1, MaxTransit - 1, MaxTransit} :
          positions = Fleet(na, np, nt)
    /\ checklists = NoChecklists
    /\ notify = {}
    /\ agents = NoSubscriptions

NextFleet ==
    \/ \E code \in QueryCodes : QueryCongestion("p1", code)
    \/ CongestionResume("p1", TRUE)
    \/ QueryRespond("p1")
    \/ Recycle("p1")

SpecFleet == InitFleet /\ [][NextFleet]_vars

\* the number of most recent fixes within 25 nm of u that the rule puts in zone
CountByRule(u, zone) ==
    Cardinality({f \in Within25(u) : ZoneByRule(u, f) = zone})

\* C11: in every snapshot the score is 15 per vessel at anchor plus 5 per
\* vessel approaching, vessels in transit adding nothing, the wait is 6 h
\* per vessel at anchor plus 2 h per vessel approaching, and the cost is
\* 500 per hour of wait, the counts being those of the fixes within 25 nm
C11_ScoreFromCounts ==
    \A u \in UpperPorts : cache[u] # <<>> =>
        LET d == cache[u][1].data
        IN  /\ d.anchorageVessels = CountByRule(u, "anchorage")
            /\ d.approachVessels = CountByRule(u, "approach")
            /\ d.transitVessels = CountByRule(u, "transit")
            /\ d.congestionScore = 15 * CountByRule(u, "anchorage")
                                     + 5 * CountByRule(u, "approach")
            /\ d.estimatedWaitHours = 6 * CountByRule(u, "anchorage")
                                        + 2 * CountByRule(u, "approach")
            /\ d.detentionCostUsd = d.estimatedWaitHours * 500

\* C11 witness: counts 1/1/1 gave score 20 and wait 8
C11_Witness ==
    /\ cache["INNSA"] # <<>>
    /\ cache["INNSA"][1].data.anchorageVessels = 1
    /\ cache["INNSA"][1].data.approachVessels = 1
    /\ cache["INNSA"][1].data.transitVessels = 1
    /\ cache["INNSA"][1].data.congestionScore = 20
    /\ cache["INNSA"][1].data.estimatedWaitHours = 8
    /\ cache["INNSA"][1].data.detentionCostUsd = 4000

\* the scores the level function is tabulated for
MaxScore == 80

\* C12: for every score, the level is critical iff score >= 50, high iff
\* 25 <= score < 50, moderate iff 10 <= score < 25 and low iff score < 10,
\* and the level of every snapshot is the level of its score
C12_LevelFromScore ==
    /\ \A score \in 0..MaxScore :
          /\ LevelOf(score) = "critical" <=> score >= 50
          /\ LevelOf(score) = "high" <=> (25 <= score /\ score < 50)
          /\ LevelOf(score) = "moderate" <=> (10 <= score /\ score < 25)
          /\ LevelOf(score) = "low" <=> score < 10
    /\ \A u \in UpperPorts : cache[u] # <<>> =>
          LET d == cache[u][1].data
          IN  /\ d.level = "critical" <=> d.congestionScore >= 50
              /\ d.level = "high" <=> (25 <= d.congestionScore /\ d.congestionScore < 50)
              /\ d.level = "moderate" <=> (10 <= d.congestionScore /\ d.congestionScore < 25)
              /\ d.level = "low" <=> d.congestionScore < 10

\* C12 witness: a snapshot with score exactly 50 is critical
C12_Witness ==
    /\ cache["INNSA"] # <<>>
    /\ cache["INNSA"][1].data.congestionScore = 50
    /\ cache["INNSA"][1].data.level = "critical"

\* the most recent fix of the vessel named in a list entry
FixOf(name) ==
    CHOOSE f \in Fixes : f.vesselId = name

\* the fixes within 25 nm of u that the list of snapshot d does not show
Unlisted(u, d) ==
    {f \in Within25(u) : \A i \in 1..Len(d.vessels) : d.vessels[i].name # f.vesselId}

\* what C14 says of list and counts whatever "nearest" is measured by
ListCappedCountsExact(u, d) ==
    /\ Len(d.vessels) = IF Cardinality(Within25(u)) <= 25
                        THEN Cardinality(Within25(u)) ELSE 25
    /\ \A i, j \in 1..Len(d.vessels) :
          i < j => /\ d.vessels[i].distanceNm <= d.vessels[j].distanceNm
                   /\ d.vessels[i].name # d.vessels[j].name
    /\ \A i \in 1..Len(d.vessels) :
          \E f \in Within25(u) : f.vesselId = d.vessels[i].name
    /\ d.anchorageVessels = CountByRule(u, "anchorage")
    /\ d.approachVessels = CountByRule(u, "approach")
    /\ d.transitVessels = CountByRule(u, "transit")
    /\ d.anchorageVessels + d.approachVessels + d.transitVessels
          = Cardinality(Within25(u))

\* C14 as claimed: the list is ordered by distance, holds at most 25
\* entries, no vessel left out is nearer to the port than a vessel listed,
\* and the counts are those of all fixes within 25 nm
C14_ListIsNearest ==
    \A u \in UpperPorts : cache[u] # <<>> =>
        /\ ListCappedCountsExact(u, cache[u][1].data)
        /\ \A i \in 1..Len(cache[u][1].data.vessels) :
              \A f \in Unlisted(u, cache[u][1].data) :
                  haversineNm(u, FixOf(cache[u][1].data.vessels[i].name).place)
                      <= haversineNm(u, f.place)

\* C14 amended: the list is ordered by the reported distance, which is the
\* distance rounded to 0.1 nm, holds at most 25 entries, no vessel left out
\* has a smaller reported distance than a vessel listed, and the counts are
\* those of all fixes within 25 nm also when more than 25 are classified
C14_ListIsNearestReported ==
    \A u \in UpperPorts : cache[u] # <<>> =>
        /\ ListCappedCountsExact(u, cache[u][1].data)
        /\ \A i \in 1..Len(cache[u][1].data.vessels) :
              /\ cache[u][1].data.vessels[i].distanceNm
                    = RoundTenths(haversineNm(u,
                          FixOf(cache[u][1].data.vessels[i].name).place), 100)
              /\ \A f \in Unlisted(u, cache[u][1].data) :
                    cache[u][1].data.vessels[i].distanceNm
                        <= RoundTenths(haversineNm(u, f.place), 100)

\* C14 witness: 31 vessels are classified, 25 are listed, the counts add up
\* to 31
C14_Witness ==
    /\ cache["INNSA"] # <<>>
    /\ Len(cache["INNSA"][1].data.vessels) = 25
    /\ cache["INNSA"][1].data.anchorageVessels = 4
    /\ cache["INNSA"][1].data.approachVessels = 3
    /\ cache["INNSA"][1].data.transitVessels = 24

\* C15: a port with coordinates and no fix within 25 nm gets a snapshot, and
\* a 200 answer, with the three counts 0, score 0, level low, wait 0, cost 0
\* and an empty list
C15_EmptySnapshot ==
    /\ \A u \in UpperPorts : (cache[u] # <<>> /\ Within25(u) = {}) =>
          /\ cache[u][1].data.anchorageVessels = 0
          /\ cache[u][1].data.approachVessels = 0
          /\ cache[u][1].data.transitVessels = 0
          /\ cache[u][1].data.congestionScore = 0
          /\ cache[u][1].data.level = "low"
          /\ cache[u][1].data.estimatedWaitHours = 0
          /\ cache[u][1].data.detentionCostUsd = 0
          /\ cache[u][1].data.vessels = <<>>
    /\ \A p \in Procs :
          (/\ proc[p].kind = "getcong"
           /\ proc[p].pc = "done"
           /\ Within25(toUpperCase(proc[p].port)) = {})
              => /\ proc[p].status = 200
                 /\ proc[p].cong # <<>>
                 /\ proc[p].cong[1] = cache[toUpperCase(proc[p].port)][1].data

\* C15 witness: the query for SGSIN, which no vessel of the fleet is near,
\* was answered 200 with score 0
C15_Witness ==
    /\ proc["p1"].kind = "getcong"
    /\ proc["p1"].pc = "done"
    /\ proc["p1"].port = "SGSIN"
    /\ proc["p1"].status = 200
    /\ proc["p1"].cong # <<>>
    /\ proc["p1"].cong[1].congestionScore = 0
    /\ proc["p1"].cong[1].transitVessels = 0
    /\ proc["p1"].cong[1].vessels = <<>>
    /\ Len(positions) > 0

---------------------------------------------------------------------------
(* SpecTrack: position reports come in and age while one client queries   *)
(* the congestion and the pre-arrival of INNSA; the table starts empty,   *)
(* or holds one fix of V1 under more rows of V2 than a query takes        *)

\* the reports a vessel sends: at anchor, under way in range, inbound
TrackRows ==
    {Row("V1", "anch3", 100, NULL, 1, 0),
     Row("V1", "tran22", 1200, NULL, 0, 0),
     Row("V2", "in100", 1000, 9000, 0, 0)}

\* a table of m rows: the oldest is the only fix of V1, the others are V2's
Crowded(m) ==
    [i \in 1..m |->
        IF i = 1 THEN Row("V1", "tran22", 1200, NULL, 0, StartTime - HOUR)
        ELSE Row("V2", "far", 1000, NULL, 0, StartTime - HOUR + i)]

InitTrack ==
    /\ InitCommon
    /\ dir = [u \in UpperPorts |-> "ok"]
    /\ positions \in {<<>>, Crowded(CONGESTION_TAKE + 1), Crowded(PREARRIVAL_TAKE + 1)}
    /\ checklists = NoChecklists
    /\ notify = {}
    /\ agents = NoSubscriptions

NextTrack ==
    \/ \E row \in TrackRows :
          /\ proc["p1"].pc = "idle"
          /\ Len(positions) < MaxRows - 1
          /\ ReportPosition(row)
    \* the clock steps to the edge of the 6 h window and past it
    \/ \E d \in {6 * HOUR, 1} : proc["p1"].pc = "idle" /\ Tick(d, MaxTicks)
    \/ QueryCongestion("p1", "INNSA")
    \/ QueryPreArrival("p1", "INNSA", 24)
    \/ CongestionResume("p1", TRUE)
    \/ PreArrivalResume("p1", TRUE)
    \/ QueryRespond("p1")
    \/ Recycle("p1")

SpecTrack == InitTrack /\ [][NextTrack]_vars

\* the fixes the classifier is handed when it is called now
ClassifierInput ==
    Deduplicate(findManyPositions(Since(6), CONGESTION_TAKE))

\* the fixes of a vessel no report has been stored of
NewFixes ==
    {Row("V3", place, speed, NULL, nav, now) :
        place \in ZonePlaces, speed \in {200, 201, 501}, nav \in {0, 1}}

\* the score of port u for the fixes rows
ScoreOf(u, rows) ==
    CongestionData(u, rows, now).congestionScore

\* C13: for the fixes the classifier is handed, the fix of one more vessel
\* that classifies as anchorage never decreases the score, and the fix of
\* one more vessel that classifies as transit leaves the score unchanged
C13_ScoreMonotone ==
    \A u \in UpperPorts : \A r \in NewFixes :
        /\ ZoneByRule(u, r) = "anchorage" /\ haversineNm(u, r.place) <= 2500
              => ScoreOf(u, <<r>> \o ClassifierInput) >= ScoreOf(u, ClassifierInput)
        /\ ZoneByRule(u, r) = "transit" /\ haversineNm(u, r.place) <= 2500
              => ScoreOf(u, <<r>> \o ClassifierInput) = ScoreOf(u, ClassifierInput)

\* C13 witness: 25 vessels have reported, one of them at anchor, the score
\* of the snapshot is 15; one more vessel at anchor raises it to 30, one more in transit
\* leaves it at 15
C13_Witness ==
    /\ cache["INNSA"] # <<>>
    /\ cache["INNSA"][1].data.congestionScore = 15
    /\ Len(cache["INNSA"][1].data.vessels) = 25
    /\ Len(ClassifierInput) = 25
    /\ ScoreOf("INNSA", ClassifierInput) = 15
    /\ ScoreOf("INNSA", <<Row("V3", "anch8", 200, NULL, 0, now)>> \o ClassifierInput) = 30
    /\ ScoreOf("INNSA", <<Row("V3", "tran25", 501, NULL, 0, now)>> \o ClassifierInput) = 15

\* the most recent fix of each vessel among the rows not older than hours
MostRecentInWindow(hours) ==
    {positions[k] : k \in {i \in 1..Len(positions) :
        /\ positions[i].timestamp >= Since(hours)
        /\ \A j \in (i + 1)..Len(positions) :
              positions[j].vesselId # positions[i].vesselId}}

\* the vessels of the 6 h window that the rule puts in zone near port u
VesselsByRule(u, zone) ==
    {f.vesselId : f \in {g \in MostRecentInWindow(6) :
        haversineNm(u, g.place) <= 2500 /\ ZoneByRule(u, g) = zone}}

\* the vessels of the 12 h window that pass the filter of the predictor
InboundByRule(u, window) ==
    {f.vesselId : f \in {g \in MostRecentInWindow(12) : Inbound(u, g, window)}}

\* the names in a list of vessels, and those of a zone
NamesIn(list) ==
    {list[i].name : i \in 1..Len(list)}

NamesInZone(list, zone) ==
    {list[i].name : i \in {k \in 1..Len(list) : list[k].zone = zone}}

\* C16: a snapshot is computed from exactly the most recent fix of every
\* vessel that has a fix in the last 6 h, and a pre-arrival report from
\* exactly the most recent fix of every vessel that has a fix in the last
\* 12 h, however many rows the window holds
C16_OneFixPerVessel ==
    [][\A p \in Procs :
        /\ (proc[p].congSt = "query" /\ proc'[p].congSt = "done")
              => /\ \A zone \in {"anchorage", "approach", "transit"} :
                    NamesInZone(proc'[p].cong[1].vessels, zone)
                        = VesselsByRule(toUpperCase(proc[p].port), zone)
                 /\ proc'[p].cong[1].anchorageVessels
                       = Cardinality(VesselsByRule(toUpperCase(proc[p].port), "anchorage"))
                 /\ proc'[p].cong[1].approachVessels
                       = Cardinality(VesselsByRule(toUpperCase(proc[p].port), "approach"))
                 /\ proc'[p].cong[1].transitVessels
                       = Cardinality(VesselsByRule(toUpperCase(proc[p].port), "transit"))
        /\ (proc[p].preSt = "query" /\ proc'[p].preSt = "done")
              => /\ NamesIn(proc'[p].pre[1].vessels)
                       = InboundByRule(toUpperCase(proc[p].port), proc[p].window)
                 /\ proc'[p].pre[1].inboundVessels
                       = Cardinality(InboundByRule(toUpperCase(proc[p].port),
                                                   proc[p].window))]_vars

---------------------------------------------------------------------------
(* SpecCache: two callers of getPortCongestion for INNSA, under either     *)
(* spelling of the code, interleave at their awaits while reports come in *)
(* and the clock passes the TTL of the cache                              *)

InitCache ==
    /\ InitCommon
    /\ dir = [u \in UpperPorts |-> "ok"]
    /\ positions \in {<<>>, SceneAnchored}
    /\ checklists = NoChecklists
    /\ notify = {}
    /\ agents = NoSubscriptions

NextCache ==
    \/ \E p \in Procs, code \in {"innsa", "INNSA"} : QueryCongestion(p, code)
    \/ \E p \in Procs : CongestionResume(p, TRUE)
    \/ \E p \in Procs : QueryRespond(p)
    \/ \E p \in Procs : Recycle(p)
    \/ /\ Len(positions) < MaxRows - 1
       /\ ReportPosition(Row("V3", "anch3", 0, NULL, 5, 0))
    \/ \E d \in CacheTickSteps : Tick(d, MaxTicks)

SpecCache == InitCache /\ [][NextCache]_vars

\* p calls getPortCongestion in this step
CongestionCalled(p) ==
    /\ proc[p].pc = "idle"
    /\ proc'[p].kind = "getcong"

\* the positions query of p's call is answered in this step
CongestionComputed(p) ==
    /\ proc[p].congSt = "query"
    /\ proc'[p].congSt = "done"

\* the snapshot d of port u is what the rule gives for the table as it is
ComputedFromTable(u, d) ==
    /\ d.port.unlocode = u
    /\ d.anchorageVessels = Cardinality(VesselsByRule(u, "anchorage"))
    /\ d.approachVessels = Cardinality(VesselsByRule(u, "approach"))
    /\ d.transitVessels = Cardinality(VesselsByRule(u, "transit"))
    /\ d.congestionScore = 15 * d.anchorageVessels + 5 * d.approachVessels
    /\ d.level = LevelOf(d.congestionScore)
    /\ d.estimatedWaitHours = 6 * d.anchorageVessels + 2 * d.approachVessels
    /\ d.detentionCostUsd = 500 * d.estimatedWaitHours
    /\ NamesIn(d.vessels) = UNION {VesselsByRule(u, zone) :
                                      zone \in {"anchorage", "approach", "transit"}}
    /\ d.updatedAt = now

\* C17: a call for a port code in either case made less than 60 000 ms
\* after the entry of the port was computed returns the snapshot of the
\* entry and reads no positions, whatever the table holds by then; a call
\* made 60 000 ms or more after it reads the positions, and its answer is
\* computed from them and replaces the entry; so a returned snapshot is
\* never older than 60 s at the call
C17_CacheTtl ==
    [][\A p \in Procs :
        /\ CongestionCalled(p) =>
              IF /\ cache[toUpperCase(proc'[p].port)] # <<>>
                 /\ now - cache[toUpperCase(proc'[p].port)][1].ts < 60000
              THEN /\ proc'[p].congSt = "done"
                   /\ proc'[p].cong = <<cache[toUpperCase(proc'[p].port)][1].data>>
                   /\ now - proc'[p].cong[1].updatedAt < 60000
                   /\ cache' = cache
              ELSE /\ proc'[p].congSt = "query"
                   /\ proc'[p].cong = <<>>
        /\ CongestionComputed(p) =>
              /\ ComputedFromTable(toUpperCase(proc[p].port), proc'[p].cong[1])
              /\ cache'[toUpperCase(proc[p].port)]
                    = <<[data |-> proc'[p].cong[1], ts |-> now]>>]_vars

\* C17 witness: a call was answered by the cache with a snapshot that counts
\* two vessels at anchor although the table by then holds three
C17_Witness ==
    /\ proc["p1"].kind = "getcong"
    /\ proc["p1"].pc = "done"
    /\ proc["p1"].port = "innsa"
    /\ proc["p1"].hitAtCall
    /\ proc["p1"].status = 200
    /\ proc["p1"].cong[1].anchorageVessels = 2
    /\ Cardinality(VesselsByRule("INNSA", "anchorage")) = 3
    /\ proc["p2"].pc = "idle"

\* a snapshot with every field, the derived ones consistent with the counts
WholeSnapshot(d) ==
    /\ DOMAIN d = {"port", "anchorageVessels", "approachVessels", "transitVessels",
                   "congestionScore", "level", "estimatedWaitHours",
                   "detentionCostUsd", "vessels", "dataWindowHours", "updatedAt"}
    /\ d.congestionScore = 15 * d.anchorageVessels + 5 * d.approachVessels
    /\ d.level = LevelOf(d.congestionScore)
    /\ Len(d.vessels) = d.anchorageVessels + d.approachVessels + d.transitVessels

\* C18: with calls for one port interleaved, a call that finds an entry
\* younger than the TTL returns it, every other call returns the snapshot
\* computed from the positions it read itself and leaves it as the entry
\* (the last write wins); the entry and every answer are whole snapshots,
\* and every call is answered 200
C18_RaceTolerant ==
    [][\A p \in Procs :
        /\ CongestionCalled(p) /\ proc'[p].congSt = "done" =>
              /\ proc'[p].cong # <<>>
              /\ proc'[p].cong[1] = cache[toUpperCase(proc'[p].port)][1].data
              /\ now - proc'[p].cong[1].updatedAt < CACHE_TTL_MS
        /\ CongestionComputed(p) =>
              /\ ComputedFromTable(toUpperCase(proc[p].port), proc'[p].cong[1])
              /\ cache'[toUpperCase(proc[p].port)][1].data = proc'[p].cong[1]
              /\ \A q \in Procs \ {p} : proc'[q] = proc[q]
        /\ proc'[p].kind = "getcong" /\ proc'[p].pc = "done" =>
              /\ proc'[p].status = 200
              /\ proc'[p].cong # <<>>
              /\ WholeSnapshot(proc'[p].cong[1])
        /\ \A u \in UpperPorts :
              cache'[u] # <<>> => WholeSnapshot(cache'[u][1].data)]_vars

\* C18 witness: two calls were in flight together (neither found an entry,
\* and their snapshots were computed less than the TTL apart); a report came
\* in between their answers, so the snapshots differ; the entry is the
\* later one
C18_Witness ==
    /\ proc["p1"].kind = "getcong" /\ proc["p1"].pc = "done"
    /\ proc["p2"].kind = "getcong" /\ proc["p2"].pc = "done"
    /\ ~proc["p1"].hitAtCall /\ ~proc["p2"].hitAtCall
    /\ proc["p1"].status = 200 /\ proc["p2"].status = 200
    /\ proc["p1"].cong[1].updatedAt = proc["p2"].cong[1].updatedAt
    /\ proc["p1"].cong[1].anchorageVessels = 2
    /\ proc["p2"].cong[1].anchorageVessels = 3
    /\ cache["INNSA"] # <<>>
    /\ cache["INNSA"][1].data = proc["p2"].cong[1]

---------------------------------------------------------------------------
(* SpecInbound: one vessel at the edges of the pre-arrival filter (200 nm, *)
(* 3 kn, 45 degrees off the bearing on either side and across north, the  *)
(* window) and of the confidence tiers (15 and 30 degrees), beside a      *)
(* second vessel, and a client asking for the arrivals of INNSA within 10 *)
(* or 72 hours                                                            *)

InitInbound ==
    /\ InitCommon
    /\ dir = [u \in UpperPorts |-> "ok"]
    /\ \E place \in {"in30", "in100", "in200", "out20001"},
          speed \in {NULL, 299, 300, 999, 1000},
          heading \in {NULL, 4499, 4500, 5500, 5501, 10500, 10501, 12000, 12001,
                       13499, 13500, 13501, 22500, 22501, 27000, 32499, 32500},
          other \in {<<>>, <<Row("V2", "in100", 2000, NULL, 0, StartTime - HOUR)>>} :
          positions = other \o <<Row("V1", place, speed, heading, 0, StartTime - HOUR)>>
    /\ checklists = NoChecklists
    /\ notify = {}
    /\ agents = NoSubscriptions

NextInbound ==
    \/ \E window \in {10, 72} : QueryPreArrival("p1", "INNSA", window)
    \/ PreArrivalResume("p1", TRUE)
    \/ QueryRespond("p1")
    \/ Recycle("p1")

SpecInbound == InitInbound /\ [][NextInbound]_vars

\* the fix f is inbound for port u within window hours, by the rule: at most
\* 200 nm off, at least 3 kn, no heading or a heading at most 45 degrees off
\* the bearing to the port, and distance / speed at most window
InboundRule(u, f, window) ==
    /\ haversineNm(u, f.place) <= 20000
    /\ f.speed # NULL
    /\ f.speed >= 300
    /\ \/ f.heading = NULL
       \/ \E turn \in {-36000, 0, 36000} :
             Abs(f.heading - bearingDeg(f.place, u) + turn) <= 4500
    /\ haversineNm(u, f.place) <= window * f.speed

\* C19: the vessels of a pre-arrival report are exactly the fixes that are
\* inbound by the rule; a fix without heading that passes the other three
\* tests is in the report
C19_InboundIff ==
    \A p \in Procs :
        (proc[p].kind = "getpre" /\ proc[p].pc = "done") =>
            /\ proc[p].pre # <<>>
            /\ \A f \in MostRecentInWindow(12) :
                  f.vesselId \in NamesIn(proc[p].pre[1].vessels)
                      <=> InboundRule(toUpperCase(proc[p].port), f, proc[p].window)
            /\ NamesIn(proc[p].pre[1].vessels)
                  \subseteq {f.vesselId : f \in MostRecentInWindow(12)}
            /\ Len(proc[p].pre[1].vessels)
                  = Cardinality(NamesIn(proc[p].pre[1].vessels))

\* C19 witness: V1, 100 nm out at 10 kn and heading exactly 45 degrees off
\* the bearing, is in the report for 10 hours
C19_Witness ==
    /\ proc["p1"].kind = "getpre"
    /\ proc["p1"].pc = "done"
    /\ proc["p1"].window = 10
    /\ "V1" \in NamesIn(proc["p1"].pre[1].vessels)
    /\ \E i \in 1..Len(positions) :
          /\ positions[i].vesselId = "V1"
          /\ positions[i].place = "in100"
          /\ positions[i].speed = 1000
          /\ positions[i].heading = 13500

\* the fix the entry v of a report was made from
FixNamed(v) ==
    CHOOSE f \in MostRecentInWindow(12) : f.vesselId = v.name

\* C20 as claimed: the reported etaHours is the reported distanceNm divided
\* by the reported speedKt (all three in tenths)
C20_EtaIsReportedRatio ==
    \A p \in Procs :
        (proc[p].kind = "getpre" /\ proc[p].pc = "done" /\ proc[p].pre # <<>>) =>
            \A i \in 1..Len(proc[p].pre[1].vessels) :
                proc[p].pre[1].vessels[i].etaHours * proc[p].pre[1].vessels[i].speedKt
                    = 10 * proc[p].pre[1].vessels[i].distanceNm

\* C20 amended: the reported etaHours is the distance of the fix divided by
\* its speed, both unrounded, rounded to one decimal: it is within 0.05 h of
\* that quotient, and is exactly 10.0 for 100 nm at 10 kn
C20_EtaIsRoundedRatio ==
    \A p \in Procs :
        (proc[p].kind = "getpre" /\ proc[p].pc = "done" /\ proc[p].pre # <<>>) =>
            \A i \in 1..Len(proc[p].pre[1].vessels) :
                LET v == proc[p].pre[1].vessels[i]
                    f == FixNamed(v)
                IN  /\ 2 * Abs(v.etaHours * f.speed - 10 * haversineNm("INNSA", f.place))
                          <= f.speed
                    /\ (haversineNm("INNSA", f.place) = 10000 /\ f.speed = 1000)
                          => v.etaHours = 100

\* C20 witness: V1, 100 nm out at 3 kn, is reported with 100.0 nm, 3.0 kn and
\* 33.3 h
C20_Witness ==
    /\ proc["p1"].kind = "getpre"
    /\ proc["p1"].pc = "done"
    /\ proc["p1"].pre # <<>>
    /\ \E i \in 1..Len(proc["p1"].pre[1].vessels) :
          /\ proc["p1"].pre[1].vessels[i].name = "V1"
          /\ proc["p1"].pre[1].vessels[i].distanceNm = 1000
          /\ proc["p1"].pre[1].vessels[i].speedKt = 30
          /\ proc["p1"].pre[1].vessels[i].etaHours = 333

---------------------------------------------------------------------------
(* SpecRest: the vessels of SpecInbound, and a client of the REST layer    *)
(* that leaves the window parameter out, or sends 10, 72 or a word        *)

NextRest ==
    \/ \E q \in {<<>>, <<"10">>, <<"72">>, <<"abc">>} :
          QueryPreArrival("p1", "INNSA", WindowParam(q))
    \/ PreArrivalResume("p1", TRUE)
    \/ QueryRespond("p1")
    \/ Recycle("p1")

SpecRest == InitInbound /\ [][NextRest]_vars

\* C21: the vessels of a pre-arrival report are in the order of
\* non-decreasing etaHours, and the etaHours of each is at most the window
\* asked for, 48 when none is asked for
C21_SortedWithinWindow ==
    \A p \in Procs :
        (proc[p].kind = "getpre" /\ proc[p].pc = "done" /\ proc[p].pre # <<>>) =>
            /\ \A i, j \in 1..Len(proc[p].pre[1].vessels) :
                  i < j => proc[p].pre[1].vessels[i].etaHours
                              <= proc[p].pre[1].vessels[j].etaHours
            /\ \A i \in 1..Len(proc[p].pre[1].vessels) :
                  /\ proc[p].window \in Nat
                  /\ proc[p].pre[1].vessels[i].etaHours <= 10 * proc[p].window

\* how far, in 1/100 degree, the heading of fix f is off the bearing from f
\* to port u: the shorter way round the compass
AngleOff(u, f) ==
    LET x == (f.heading - bearingDeg(f.place, u)) % 36000
    IN  IF x <= 18000 THEN x ELSE 36000 - x

\* C22: a vessel of a pre-arrival report has confidence high iff its heading
\* is at most 15 degrees off the bearing, medium iff it is more than 15 and
\* at most 30 degrees off or no heading is reported, low iff it is more than
\* 30 (and, being in the report, at most 45) degrees off
C22_ConfidenceTiers ==
    \A p \in Procs :
        (proc[p].kind = "getpre" /\ proc[p].pc = "done" /\ proc[p].pre # <<>>) =>
            \A i \in 1..Len(proc[p].pre[1].vessels) :
                LET v == proc[p].pre[1].vessels[i]
                    f == FixNamed(v)
                IN  /\ v.confidence \in {"high", "medium", "low"}
                    /\ f.heading = NULL => v.confidence = "medium"
                    /\ f.heading # NULL =>
                          /\ v.confidence = "high" <=> AngleOff("INNSA", f) <= 1500
                          /\ v.confidence = "medium" <=>
                                (1500 < AngleOff("INNSA", f) /\ AngleOff("INNSA", f) <= 3000)
                          /\ v.confidence = "low" <=>
                                (3000 < AngleOff("INNSA", f) /\ AngleOff("INNSA", f) <= 4500)

\* C22 witness: V1 heads exactly 15 degrees off the bearing and is reported
\* with confidence high, beside V2, which reports no heading and is medium
C22_Witness ==
    /\ proc["p1"].kind = "getpre"
    /\ proc["p1"].pc = "done"
    /\ proc["p1"].pre # <<>>
    /\ \E i, j \in 1..Len(proc["p1"].pre[1].vessels) :
          /\ proc["p1"].pre[1].vessels[i].name = "V1"
          /\ proc["p1"].pre[1].vessels[i].heading = 10500
          /\ proc["p1"].pre[1].vessels[i].bearingToPort = 90
          /\ proc["p1"].pre[1].vessels[i].confidence = "high"
          /\ proc["p1"].pre[1].vessels[j].name = "V2"
          /\ proc["p1"].pre[1].vessels[j].heading = NULL
          /\ proc["p1"].pre[1].vessels[j].confidence = "medium"

---------------------------------------------------------------------------
(* SpecHeading: a vessel 30 nm off INNSA, on the bearing of 10 degrees,    *)
(* heads any whole degree of the compass                                   *)

InitHeading ==
    /\ InitCommon
    /\ dir = [u \in UpperPorts |-> "ok"]
    /\ \E deg \in 0..359 :
          positions = <<Row("V1", "in30", 1000, 100 * deg, 0, StartTime - HOUR)>>
    /\ checklists = NoChecklists
    /\ notify = {}
    /\ agents = NoSubscriptions

SpecHeading == InitHeading /\ [][NextInbound]_vars

\* the smaller of two numbers
Min(x, y) == IF x <= y THEN x ELSE y

\* C23: for the heading a of the vessel and every whole degree b,
\* headingDiff(a, b) lies in 0..180, is the same as headingDiff(b, a) and is
\* min(|a - b|, 360 - |a - b|); 350 against 10 gives 20; and it is what the
\* predictor goes by: the vessel is in the report iff its heading is at most
\* 45 degrees from the bearing of 10 degrees by that measure
C23_CircularDistance ==
    /\ headingDiff(35000, 1000) = 2000
    /\ \A i \in 1..Len(positions) : \A deg \in 0..359 :
          LET a == positions[i].heading
              b == 100 * deg
          IN  /\ headingDiff(a, b) \in 0..18000
              /\ headingDiff(a, b) = headingDiff(b, a)
              /\ headingDiff(a, b) = Min(Abs(a - b), 36000 - Abs(a - b))
    /\ \A p \in Procs :
          (proc[p].kind = "getpre" /\ proc[p].pc = "done" /\ proc[p].pre # <<>>) =>
              \A i \in 1..Len(positions) :
                  positions[i].vesselId \in NamesIn(proc[p].pre[1].vessels)
                      <=> Min(Abs(positions[i].heading - 1000),
                              36000 - Abs(positions[i].heading - 1000)) <= 4500

\* C23 witness: the vessel heads 350 degrees, 20 degrees off the bearing of
\* 10, and is in the report with confidence medium
C23_Witness ==
    /\ proc["p1"].kind = "getpre"
    /\ proc["p1"].pc = "done"
    /\ proc["p1"].pre # <<>>
    /\ Len(proc["p1"].pre[1].vessels) = 1
    /\ proc["p1"].pre[1].vessels[1].heading = 35000
    /\ proc["p1"].pre[1].vessels[1].bearingToPort = 10
    /\ proc["p1"].pre[1].vessels[1].confidence = "medium"

---------------------------------------------------------------------------
(* SpecRules: evaluation passes for INNSA, one after the other, under      *)
(* rules of every kind: thresholds of 2 and 6 h, alerting sets from none   *)
(* to all, types suppressed or not; off the port 0, 1, 2 or 4 vessels lie  *)
(* at anchor (low, moderate, high, critical) and V1 is 30 nm out with an   *)
(* ETA of 2.0, 2.1, 6.0 or 6.1 h, with or without a checklist that has an  *)
(* overdue document and a dangerous-goods declaration                      *)

\* the checklist of V1's call at INNSA 20 h before its ETA, written when the
\* general declaration was already overdue and the DG manifest submitted
SceneChecklist ==
    <<[voyageId     |-> "VOY1",
       imo          |-> ImoOf("V1"),
       portUnlocode |-> "INNSA",
       etaAt        |-> StartTime + 20 * HOUR,
       documents    |-> [d \in DocIds |->
                            IF d = "dangerous-goods" THEN "submitted" ELSE "pending"],
       summary      |-> buildSummary([d \in DocIds |->
                            IF d = "dangerous-goods" THEN "submitted" ELSE "pending"],
                            StartTime + 20 * HOUR, StartTime - HOUR)]>>

InitRules ==
    /\ now = StartTime
    /\ ticks = 0
    /\ cache = EmptyCache
    /\ rules \in [etaThresholdHours : {2, 6},
                  congestionLevels  : {{}, {"critical"}, {"high", "critical"},
                                       {"low", "moderate", "high", "critical"}},
                  disabledTypes     : {{}, {"HIGH_CONGESTION"}, {"ETA_IMMINENT"},
                                       {"DOC_OVERDUE", "DG_INBOUND"}}]
    /\ alertLog = [u \in UpperPorts |-> <<>>]
    /\ nextId = 1
    /\ attempts = <<>>
    /\ events = [u \in UpperPorts |-> <<>>]
    /\ congLog = <<>>
    /\ lastAck = <<>>
    /\ proc = [p \in Procs |-> IdleProc]
    /\ InitDesk
    /\ dir \in {[u \in UpperPorts |-> "ok"], [u \in UpperPorts |-> "nocoords"]}
    /\ \E na \in {0, 1, 2, 4}, speed \in {490, 500, 1420, 1500} :
          positions = [i \in 1..na |->
                          Row(FleetNames[i], "anch3", 100, NULL, 1, StartTime - HOUR)]
                      \o <<Row("V1", "in30", speed, NULL, 0, StartTime - HOUR)>>
    /\ checklists \in {NoChecklists, SceneChecklist}
    /\ notify = {"webhook"}
    /\ agents = NoSubscriptions

NextRules ==
    \/ RestEvaluate("p1", "innsa")
    \/ PreArrivalResume("p1", TRUE)
    \/ CongestionResume("p1", TRUE)
    \/ EvalFinish("p1")
    \/ Recycle("p1")
    \/ \E id \in AlertIds \ {0} : acknowledgeAlert("innsa", id)

SpecRules == InitRules /\ [][NextRules]_vars

\* the alerts of one type in a list
OfType(list, type) ==
    SelectSeq(list, LAMBDA a : a.type = type)

\* C24: a pass persists and returns at most one HIGH_CONGESTION alert, under
\* the id PORT_<CODE>; it does so iff it has a snapshot, the level of the
\* snapshot is in the alerting set of the rules, the type is not suppressed
\* and the dedup scan of the pass finds no duplicate in the window; the
\* severity is CRITICAL iff the level is critical, and WARNING otherwise
C24_HighCongestion ==
    [][\A p \in Procs : PassReturns(p) =>
        LET u  == toUpperCase(proc[p].port)
            hc == OfType(Appended(u), "HIGH_CONGESTION")
        IN  /\ Len(hc) <= 1
            /\ OfType(proc'[p].fired, "HIGH_CONGESTION") = hc
            /\ Len(hc) = 1 <=>
                  /\ proc[p].cong # <<>>
                  /\ proc[p].cong[1].level \in rules.congestionLevels
                  /\ "HIGH_CONGESTION" \notin rules.disabledTypes
                  /\ ~RecentUnacked(proc[p].existing, "HIGH_CONGESTION", "PORT_INNSA", now)
            /\ Len(hc) = 1 =>
                  /\ u = "INNSA"
                  /\ hc[1].imo = "PORT_INNSA"
                  /\ hc[1].portCode = "INNSA"
                  /\ hc[1].severity \in {"CRITICAL", "WARNING"}
                  /\ hc[1].severity = "CRITICAL" <=> proc[p].cong[1].level = "critical"]_vars

\* C24 witness: the log holds a CRITICAL and, after its acknowledgement, a
\* second HIGH_CONGESTION alert of PORT_INNSA, one per pass
C24_Witness ==
    /\ Len(OfType(alertLog["INNSA"], "HIGH_CONGESTION")) = 2
    /\ OfType(alertLog["INNSA"], "HIGH_CONGESTION")[1].severity = "CRITICAL"
    /\ OfType(alertLog["INNSA"], "HIGH_CONGESTION")[1].acknowledged
    /\ OfType(alertLog["INNSA"], "HIGH_CONGESTION")[2].imo = "PORT_INNSA"
    /\ rules.congestionLevels = {"critical"}
    /\ proc["p1"].pc = "done"

TypeOfAlert(id) ==
    LET all == alertLog["INNSA"] \o alertLog["SGSIN"]
    IN  IF \E i \in 1..Len(all) : all[i].id = id
        THEN (CHOOSE a \in {all[i] : i \in 1..Len(all)} : a.id = id).type
        ELSE "none"

\* C28: no alert of a suppressed type is in a log, in the list a pass
\* returned, or among the deliveries
C28_SuppressedNeverFired ==
    /\ \A u \in UpperPorts : \A i \in 1..Len(alertLog[u]) :
          alertLog[u][i].type \notin rules.disabledTypes
    /\ \A p \in Procs : \A i \in 1..Len(proc[p].fired) :
          proc[p].fired[i].type \notin rules.disabledTypes
    /\ \A i \in 1..Len(attempts) :
          TypeOfAlert(attempts[i].alertId) \notin rules.disabledTypes
    /\ \A u \in UpperPorts : \A i \in 1..Len(events[u]) :
          TypeOfAlert(events[u][i].alertId) \notin rules.disabledTypes

\* C28 witness: DOC_OVERDUE and DG_INBOUND are suppressed; V1, 2.0 h out, has
\* an overdue document and a dangerous-goods declaration, four vessels lie
\* at anchor: the pass fired HIGH_CONGESTION and ETA_IMMINENT, and delivered
\* both, and nothing else
C28_Witness ==
    /\ rules.disabledTypes = {"DOC_OVERDUE", "DG_INBOUND"}
    /\ checklists = SceneChecklist
    /\ checklists[1].summary.overdue > 0
    /\ proc["p1"].pc = "done"
    /\ Len(proc["p1"].fired) = 2
    /\ Len(alertLog["INNSA"]) = 2
    /\ {alertLog["INNSA"][i].type : i \in 1..2} = {"HIGH_CONGESTION", "ETA_IMMINENT"}
    /\ {TypeOfAlert(attempts[i].alertId) : i \in 1..Len(attempts)}
          = {"HIGH_CONGESTION", "ETA_IMMINENT"}

---------------------------------------------------------------------------
(* SpecDocs: the agent opens the checklist of V1's call at INNSA and files *)
(* documents while time passes and evaluation passes run; V1 is 30 nm out  *)
(* at 4.9 kn (6.1 h, not imminent)                                         *)

\* `mandatory` of the catalogue entries the model keeps
Mandatory(d) == d # "dangerous-goods"

\* getChecklist(voyageId, imo, vesselName, portUnlocode, etaAt): the stored
\* checklist, its ETA and summary refreshed when another ETA is given, or a
\* new one from the template with every document pending
getChecklist(voyageId, imo, portUnlocode, etaAt) ==
    /\ checklists' =
          IF \E i \in 1..Len(checklists) : checklists[i].voyageId = voyageId
          THEN [i \in 1..Len(checklists) |->
                   IF /\ checklists[i].voyageId = voyageId
                      /\ etaAt # NULL
                      /\ checklists[i].etaAt # etaAt
                   THEN [checklists[i] EXCEPT
                            !.etaAt = etaAt,
                            !.summary = buildSummary(checklists[i].documents, etaAt, now)]
                   ELSE checklists[i]]
          ELSE Append(checklists,
                      [voyageId     |-> voyageId,
                       imo          |-> imo,
                       portUnlocode |-> portUnlocode,
                       etaAt        |-> etaAt,
                       documents    |-> [d \in DocIds |-> "pending"],
                       summary      |-> buildSummary([d \in DocIds |-> "pending"],
                                                     etaAt, now)])
    /\ UNCHANGED <<desk, now, dir, positions, cache, rules, notify, alertLog, nextId,
                   attempts, events, agents, proc, lastAck, congLog, ticks>>

\* updateDocStatus(voyageId, docId, status): null when there is no such
\* checklist; else the status is set and the summary rebuilt and stored
updateDocStatus(voyageId, docId, status) ==
    /\ \E i \in 1..Len(checklists) : checklists[i].voyageId = voyageId
    /\ checklists' =
          [i \in 1..Len(checklists) |->
              IF checklists[i].voyageId = voyageId
              THEN LET docs == [checklists[i].documents EXCEPT ![docId] = status]
                   IN  [checklists[i] EXCEPT
                           !.documents = docs,
                           !.summary = buildSummary(docs, checklists[i].etaAt, now)]
              ELSE checklists[i]]
    /\ UNCHANGED <<desk, now, dir, positions, cache, rules, notify, alertLog, nextId,
                   attempts, events, agents, proc, lastAck, congLog, ticks>>

InitDocs ==
    /\ InitCommon
    /\ dir = [u \in UpperPorts |-> "ok"]
    /\ positions = <<Row("V1", "in30", 490, NULL, 0, StartTime - HOUR)>>
    /\ checklists = NoChecklists
    /\ notify = {}
    /\ agents = NoSubscriptions

NextDocs ==
    \/ \E eta \in {StartTime + 30 * HOUR, StartTime + 60 * HOUR} :
          getChecklist("VOY1", ImoOf("V1"), "INNSA", eta)
    \/ \E d \in DocIds, st \in {"submitted", "verified", "rejected"} :
          updateDocStatus("VOY1", d, st)
    \/ RestEvaluate("p1", "INNSA")
    \/ PreArrivalResume("p1", TRUE)
    \/ CongestionResume("p1", TRUE)
    \/ EvalFinish("p1")
    \/ Recycle("p1")
    \/ Tick(7 * HOUR, MaxTicks)

SpecDocs == InitDocs /\ [][NextDocs]_vars

\* the alerts of one type and vessel that a step adds to the log of INNSA
AppendedFor(type, imo) ==
    SelectSeq(OfType(Appended("INNSA"), type), LAMBDA a : a.imo = imo)

\* at time t a mandatory document of the vessel's call at the port is still
\* pending past its deadline
MandatoryOverdue(imo, portUpper, t) ==
    \E i \in 1..Len(checklists) :
        /\ checklists[i].imo = imo
        /\ checklists[i].portUnlocode = portUpper
        /\ checklists[i].etaAt # NULL
        /\ \E d \in DocIds :
              /\ Mandatory(d)
              /\ checklists[i].documents[d] = "pending"
              /\ t > checklists[i].etaAt - DueHoursBeforeEta(d) * HOUR

DgSubmitted(imo, portUpper) ==
    \E i \in 1..Len(checklists) :
        /\ checklists[i].imo = imo
        /\ checklists[i].portUnlocode = portUpper
        /\ checklists[i].documents["dangerous-goods"] = "submitted"

\* C27: for every vessel of the pre-arrival list of a pass, the pass fires a
\* DG_INBOUND alert iff a dangerous-goods declaration is submitted for the
\* vessel's call at the port, whatever the other documents are (and the type
\* is not suppressed and the dedup scan finds no duplicate)
C27_DgInboundIff ==
    [][\A p \in Procs : PassReturns(p) /\ proc[p].pre # <<>> =>
        \A i \in 1..Len(proc[p].pre[1].vessels) :
            LET v == proc[p].pre[1].vessels[i]
            IN  Len(AppendedFor("DG_INBOUND", v.imo)) = 1 <=>
                    /\ DgSubmitted(v.imo, "INNSA")
                    /\ "DG_INBOUND" \notin rules.disabledTypes
                    /\ ~RecentUnacked(proc[p].existing, "DG_INBOUND", v.imo, now)]_vars

---------------------------------------------------------------------------
(* SpecLogs: passes for INNSA (asked for as innsa or INNSA) and for SGSIN  *)
(* side by side, acknowledgements under every spelling and every id, and   *)
(* writes to an alert file that are cut short.  Two vessels lie at anchor  *)
(* off INNSA, a third is 12 nm off SGSIN at 10 kn.                         *)

\* an append to the file of the port is cut short and leaves a torn line
TornWrite(u) ==
    /\ Len(alertLog[u]) < MaxLog
    /\ \A i \in 1..Len(alertLog[u]) : Parses(alertLog[u][i])
    /\ alertLog' = [alertLog EXCEPT ![u] = Append(@, TornLine)]
    /\ UNCHANGED <<desk, now, dir, positions, cache, checklists, rules, notify, nextId,
                   attempts, events, agents, proc, lastAck, congLog, ticks>>

InitLogs ==
    /\ InitCommon
    /\ dir = [u \in UpperPorts |-> "ok"]
    /\ positions = SceneAnchored \o <<Row("V3", "far", 1000, NULL, 0, StartTime - HOUR)>>
    /\ checklists = NoChecklists
    /\ notify = {}
    /\ agents = NoSubscriptions

NextLogs ==
    \/ \E code \in {"innsa", "INNSA"} : RestEvaluate("p1", code)
    \/ RestEvaluate("p2", "SGSIN")
    \/ \E p \in Procs : PreArrivalResume(p, TRUE)
    \/ \E p \in Procs : CongestionResume(p, TRUE)
    \/ \E p \in Procs : EvalFinish(p)
    \/ \E p \in Procs : Recycle(p)
    \/ \E code \in PortCodes, id \in AlertIds : acknowledgeAlert(code, id)
    \/ \E u \in UpperPorts : TornWrite(u)

SpecLogs == InitLogs /\ [][NextLogs]_vars

\* the step of p enters evaluateAlerts and reads the log
PassStarts(p) ==
    proc[p].pc = "idle" /\ proc'[p].pc = "eval"

\* the step answers an acknowledge request
AckAnswered ==
    lastAck' # <<>> /\ lastAck' # lastAck

\* the lines of a log that parse, oldest first
Parsable(log) ==
    SelectSeq(log, LAMBDA l : "id" \in DOMAIN l)

\* C29: a pass for port P reads the log of P only, appends what it fires to
\* the log of P only (whatever the case of the code it was called with) and
\* leaves every other log as it is; an acknowledgement for P acknowledges
\* an alert of P's log and leaves every other log as it is; no step changes
\* the logs of two ports, also when passes for different ports overlap
C29_PortsIndependent ==
    [][/\ \A p \in Procs : PassStarts(p) =>
              /\ proc'[p].existing = Parsable(alertLog[toUpperCase(proc'[p].port)])
              /\ \A i \in 1..Len(proc'[p].existing) :
                    proc'[p].existing[i].portCode = toUpperCase(proc'[p].port)
       /\ \A p \in Procs : PassReturns(p) =>
              /\ Appended(toUpperCase(proc[p].port)) = proc'[p].fired
              /\ \A i \in 1..Len(proc'[p].fired) :
                    proc'[p].fired[i].portCode = toUpperCase(proc[p].port)
              /\ \A o \in UpperPorts \ {toUpperCase(proc[p].port)} :
                    alertLog'[o] = alertLog[o]
       /\ AckAnswered =>
              \A o \in UpperPorts \ {lastAck'[1].port} : alertLog'[o] = alertLog[o]
       /\ (AckAnswered /\ lastAck'[1].found) =>
              \E i \in 1..Len(alertLog'[lastAck'[1].port]) :
                  /\ Parses(alertLog'[lastAck'[1].port][i])
                  /\ alertLog'[lastAck'[1].port][i].id = lastAck'[1].alertId
                  /\ alertLog'[lastAck'[1].port][i].portCode = lastAck'[1].port
                  /\ alertLog'[lastAck'[1].port][i].acknowledged
       /\ Cardinality({u \in UpperPorts : alertLog'[u] # alertLog[u]}) <= 1]_vars

\* C29 witness: the pass for innsa has returned and its alert is
\* acknowledged, while a pass for SGSIN, which has an alert of its own in its
\* log, is waiting for its queries
C29_Witness ==
    /\ proc["p1"].pc = "done"
    /\ proc["p1"].port = "innsa"
    /\ proc["p2"].pc = "eval"
    /\ proc["p2"].port = "SGSIN"
    /\ proc["p2"].existing # <<>>
    /\ alertLog["INNSA"] # <<>>
    /\ Parses(alertLog["INNSA"][1])
    /\ alertLog["INNSA"][1].acknowledged
    /\ alertLog["INNSA"][1].portCode = "INNSA"
    /\ alertLog["SGSIN"] # <<>>
    /\ Parses(alertLog["SGSIN"][1])
    /\ ~alertLog["SGSIN"][1].acknowledged

\* C30: a line that does not parse never aborts a read: getAlerts returns
\* every alert of the lines that parse (all of them, or the unacknowledged
\* ones), newest first; a pass scans every alert of the lines that parse;
\* acknowledgeAlert finds the alert with the id among the lines that parse,
\* sets its flag and leaves every other line, torn ones included, as it was
C30_TornLineSkipped ==
    [][/\ \A u \in UpperPorts :
              /\ getAlerts(u, TRUE) = Reverse(Parsable(alertLog[u]))
              /\ \A i \in 1..Len(alertLog[u]) :
                    Parses(alertLog[u][i]) =>
                        /\ \E j \in 1..Len(getAlerts(u, TRUE)) :
                              getAlerts(u, TRUE)[j] = alertLog[u][i]
                        /\ ~alertLog[u][i].acknowledged =>
                              \E j \in 1..Len(getAlerts(u, FALSE)) :
                                  getAlerts(u, FALSE)[j] = alertLog[u][i]
       /\ \A p \in Procs : PassStarts(p) =>
              \A i \in 1..Len(alertLog[toUpperCase(proc'[p].port)]) :
                  Parses(alertLog[toUpperCase(proc'[p].port)][i]) =>
                      \E j \in 1..Len(proc'[p].existing) :
                          proc'[p].existing[j] = alertLog[toUpperCase(proc'[p].port)][i]
       /\ AckAnswered =>
              LET u  == lastAck'[1].port
                  id == lastAck'[1].alertId
              IN  /\ Len(alertLog'[u]) = Len(alertLog[u])
                  /\ lastAck'[1].found <=>
                        \E i \in 1..Len(alertLog[u]) :
                            Parses(alertLog[u][i]) /\ alertLog[u][i].id = id
                  /\ \A i \in 1..Len(alertLog[u]) :
                        IF Parses(alertLog[u][i]) /\ alertLog[u][i].id = id
                        THEN alertLog'[u][i] = [alertLog[u][i] EXCEPT !.acknowledged = TRUE]
                        ELSE alertLog'[u][i] = alertLog[u][i]]_vars

\* C30 witness: the log of INNSA holds an acknowledged alert, a torn line and
\* a second alert; the acknowledgement was answered with the torn line in
\* the file, and the pass that fired the second alert had read the first
C30_Witness ==
    /\ Len(alertLog["INNSA"]) = 3
    /\ Parses(alertLog["INNSA"][1])
    /\ alertLog["INNSA"][1].acknowledged
    /\ alertLog["INNSA"][2] = TornLine
    /\ Parses(alertLog["INNSA"][3])
    /\ lastAck # <<>>
    /\ lastAck[1].found
    /\ proc["p1"].pc = "done"
    /\ proc["p1"].existing = <<alertLog["INNSA"][1]>>
    /\ Len(proc["p1"].fired) = 1
    /\ Len(getAlerts("INNSA", FALSE)) = 1

---------------------------------------------------------------------------
(* SpecAlarm: a client asks for the congestion of INNSA and SGSIN again    *)
(* and again while the cache entries expire; the fleets off INNSA are      *)
(* those of SpecFleet (low to critical)                                    *)

NextAlarm ==
    \/ NextFleet
    \/ Tick(CACHE_TTL_MS, MaxTicks)

SpecAlarm == InitFleet /\ [][NextAlarm]_vars

\* C31: a step that recomputes the snapshot of a port appends one entry
\* (time, port, level, score) to the congestion alert log when the level of
\* the snapshot is high or critical, and none when it is low or moderate; no
\* other step, a call answered from the cache included, appends anything
C31_OneEntryPerAlarm ==
    [][/\ \A p \in Procs : CongestionComputed(p) =>
              IF proc'[p].cong[1].level \in {"high", "critical"}
              THEN congLog' = Append(congLog,
                                  [ts    |-> now,
                                   port  |-> toUpperCase(proc[p].port),
                                   level |-> proc'[p].cong[1].level,
                                   score |-> proc'[p].cong[1].congestionScore])
              ELSE /\ proc'[p].cong[1].level \in {"low", "moderate"}
                   /\ congLog' = congLog
       /\ (\A p \in Procs : ~CongestionComputed(p)) => congLog' = congLog
       /\ \A p \in Procs : CongestionCalled(p) => congLog' = congLog]_vars

\* C31 witness: the snapshot of INNSA was computed twice, a minute apart,
\* critical both times, and the log holds the two entries; the last call was
\* answered from the cache and added none
C31_Witness ==
    /\ Len(congLog) = 2
    /\ congLog[1].port = "INNSA" /\ congLog[2].port = "INNSA"
    /\ congLog[1].level = "critical" /\ congLog[2].level = "critical"
    /\ congLog[2].ts = congLog[1].ts + CACHE_TTL_MS
    /\ proc["p1"].kind = "getcong"
    /\ proc["p1"].pc = "done"
    /\ proc["p1"].hitAtCall
    /\ proc["p1"].port = "innsa"

---------------------------------------------------------------------------
(* SpecBacklog: passes and acknowledgements for INNSA when its alert file  *)
(* is empty, or holds 499 or 500 lines of the last half hour: first a      *)
(* HIGH_CONGESTION alert for the port, not acknowledged, then ETA_IMMINENT *)
(* alerts.  Two vessels lie at anchor (high) and V3 is 3.0 h out.          *)

\* the file of INNSA: the alert 1000 for the port, fired 30 minutes ago,
\* and after it n alerts fired 20 minutes ago
BusyLog(n) ==
    [i \in 1..(n + 1) |->
        IF i = 1
        THEN [id |-> 1000, ts |-> StartTime - 30 * 60000, portCode |-> "INNSA",
              type |-> "HIGH_CONGESTION", severity |-> "WARNING",
              imo |-> PortPseudoId("INNSA"), vesselName |-> PortName("INNSA"),
              message |-> [s |-> "high", n1 |-> 30, n2 |-> 2, n3 |-> 12],
              acknowledged |-> FALSE]
        ELSE [id |-> 999 + i, ts |-> StartTime - 20 * 60000, portCode |-> "INNSA",
              type |-> "ETA_IMMINENT", severity |-> "WARNING",
              imo |-> ImoOf("V2"), vesselName |-> "V2",
              message |-> [s |-> "medium", n1 |-> 30, n2 |-> 300, n3 |-> 100],
              acknowledged |-> FALSE]]

InitBacklog ==
    /\ now = StartTime
    /\ ticks = 0
    /\ cache = EmptyCache
    /\ rules = DefaultRules
    /\ \E log \in {<<>>, BusyLog(ALERTS_TAIL - 2), BusyLog(ALERTS_TAIL - 1)} :
          alertLog = [u \in UpperPorts |-> IF u = "INNSA" THEN log ELSE <<>>]
    /\ nextId = 1
    /\ attempts = <<>>
    /\ events = [u \in UpperPorts |-> <<>>]
    /\ congLog = <<>>
    /\ lastAck = <<>>
    /\ proc = [p \in Procs |-> IdleProc]
    /\ InitDesk
    /\ dir = [u \in UpperPorts |-> "ok"]
    /\ positions = SceneAnchored \o SceneInbound
    /\ checklists = NoChecklists
    /\ notify = {}
    /\ agents = NoSubscriptions

NextBacklog ==
    \/ RestEvaluate("p1", "INNSA")
    \/ PreArrivalResume("p1", TRUE)
    \/ CongestionResume("p1", TRUE)
    \/ EvalFinish("p1")
    \/ Recycle("p1")
    \/ \E id \in {i \in AlertIds : 0 < i /\ i <= 1000} : acknowledgeAlert("INNSA", id)

SpecBacklog == InitBacklog /\ [][NextBacklog]_vars

\* C32: a pass persists no alert of a (type, id) of which the log of the
\* port, however long, holds an unacknowledged alert less than 60 minutes
\* old
C32_RecentAlwaysSuppresses ==
    [][\A p \in Procs : PassReturns(p) =>
        \A i \in 1..Len(Appended("INNSA")) :
            ~RecentUnacked(alertLog["INNSA"], Appended("INNSA")[i].type,
                           Appended("INNSA")[i].imo, now)]_vars

\* C33: getAlerts(port) returns exactly the alerts persisted for the port
\* and not acknowledged, newest first
C33_ActiveQueue ==
    \A u \in UpperPorts :
        getAlerts(u, FALSE)
            = Reverse(SelectSeq(alertLog[u], LAMBDA a : ~a.acknowledged))

---------------------------------------------------------------------------
(* SpecOnboarding: clients register, log in and subscribe to ports, with   *)
(* emails that differ in case and in surrounding blanks                    *)

NextOnboarding ==
    \/ \E email \in RawEmails, pw \in {"pw1", "pw2"} : registerAgent(email, pw)
    \/ \E email \in RawEmails, pw \in {"pw1", "pw2"} : loginAgent(email, pw)
    \/ \E key \in 1..MaxCalls, ports \in {{"INNSA"}, {}} : updatePortsByKey(key, ports)

SpecOnboarding == InitLogs /\ [][NextOnboarding]_vars

\* C34: a registration whose email, lower-cased and trimmed, is that of a
\* stored agent is rejected with 'Email already registered' and leaves the
\* stored agent as it is (id, apiKey, password hash, ports)
C34_NeverReplaces ==
    [][\A raw \in RawEmails :
        (/\ reply'.n # reply.n
         /\ reply'.op = "register"
         /\ reply'.arg = raw
         /\ registry[NormalizeEmail(raw)] # <<>>)
        => /\ ~reply'.ok
           /\ reply'.error = "Email already registered"
           /\ registry' = registry]_vars

---------------------------------------------------------------------------
(* The B/L routes: any sequence of create, issue, amend, surrender, release *)

\* the amendments the environment sends: a consignee, a status, a release type
AmendInputs == {<<"consignee", "Acme">>, <<"status", "DRAFT">>,
                <<"status", "RELEASED">>, <<"releaseType", "TELEX">>}

NextBL ==
    \/ \E t \in BLReleaseType : createBL(t)
    \/ \E n \in BlNumbers : issueBL(n, "agent")
    \/ \E n \in BlNumbers, a \in AmendInputs : amendBL(n, a[1], a[2])
    \/ \E n \in BlNumbers : surrenderBL(n, "clerk")
    \/ \E n \in BlNumbers, t \in BLReleaseType \cup {""}, x \in {"", "TX1"} :
          releaseBL(n, t, x)

SpecBL == InitLogs /\ [][NextBL]_vars

\* the steps of the lifecycle DRAFT -> ISSUED -> SURRENDERED -> RELEASED,
\* SURRENDERED may be skipped
ForwardSteps == {<<"DRAFT", "ISSUED">>, <<"ISSUED", "SURRENDERED">>,
                 <<"ISSUED", "RELEASED">>, <<"SURRENDERED", "RELEASED">>}

\* C35: the status of a B/L only moves forward along DRAFT -> ISSUED ->
\* SURRENDERED -> RELEASED (SURRENDERED may be skipped), an amendment never
\* changes it, and RELEASED is terminal
C35_StatusForward ==
    [][\A n \in BlNumbers :
        bls[n] # <<>> =>
          /\ bls'[n] # <<>>
          /\ \/ bls'[n][1].status = bls[n][1].status
             \/ <<bls[n][1].status, bls'[n][1].status>> \in ForwardSteps
          /\ reply'.op = "amendBL" => bls'[n][1].status = bls[n][1].status
          /\ bls[n][1].status = "RELEASED" => bls'[n][1].status = "RELEASED"]_vars

\* C36: a B/L released as ORIGINAL was SURRENDERED before the release
C36_OriginalThroughSurrender ==
    [][\A n \in BlNumbers :
        (/\ bls[n] # <<>>
         /\ bls[n][1].status # "RELEASED"
         /\ bls'[n][1].status = "RELEASED"
         /\ bls'[n][1].releaseType = "ORIGINAL")
        => bls[n][1].status = "SURRENDERED"]_vars

---------------------------------------------------------------------------
(* The port-call mutations, with the enrichment completing at any point *)

NextCalls ==
    \/ \E v \in CallVoyages, c \in {"INNSA", "innsa"} : openPortCall(v, c, "agent")
    \/ \E id \in PortCallIds : advancePortCall(id, "agent")
    \/ \E id \in PortCallIds, st \in PortCallStage : setPortCallStage(id, st, "desk")
    \/ \E id \in PortCallIds : setDAEstimate(id, 100)
    \/ \E id \in PortCallIds, b \in BriefOutcomes : enrichFromCarta(id, b)

SpecCalls == InitLogs /\ [][NextCalls]_vars

IsPrefix(a, b) == Len(a) <= Len(b) /\ SubSeq(b, 1, Len(a)) = a

\* C37: the events list of every port call only grows, its earlier events
\* are never changed or lost, and currentStage is the stage of the last event
C37_EventLog ==
    [][\A id \in PortCallIds :
        /\ portCalls[id] # <<>> =>
             /\ portCalls'[id] # <<>>
             /\ IsPrefix(portCalls[id][1].events, portCalls'[id][1].events)
        /\ portCalls'[id] # <<>> =>
             /\ portCalls'[id][1].events # <<>>
             /\ portCalls'[id][1].currentStage =
                  portCalls'[id][1].events[Len(portCalls'[id][1].events)].stage]_vars

\* an enrichment has completed on a port call that had moved on meanwhile
C37_Witness ==
    \E id \in PortCallIds :
        /\ portCalls[id] # <<>>
        /\ portCalls[id][1].cartaEnrichment # <<>>
        /\ Len(portCalls[id][1].events) >= 3
        /\ portCalls[id][1].da # NULL

\* C38: once currentStage is DEPARTED, no operation changes currentStage or
\* appends a stage event
C38_DepartedFinal ==
    [][\A id \in PortCallIds :
        (portCalls[id] # <<>> /\ portCalls[id][1].currentStage = "DEPARTED")
        => /\ portCalls'[id] # <<>>
           /\ portCalls'[id][1].currentStage = "DEPARTED"
           /\ portCalls'[id][1].events = portCalls[id][1].events]_vars

---------------------------------------------------------------------------
(* The D&D mutations over days *)

\* a container landed the day before the start, still at the terminal or
\* picked up the same day, and a second one at the terminal
DDContainers ==
    {[containerNumber |-> "CONT1", dischargeDate |-> StartTime - DAY,
      deliveryDate |-> d, returnDate |-> NULL] : d \in {NULL, StartTime - DAY}}
    \cup {[containerNumber |-> "CONT2", dischargeDate |-> StartTime - DAY,
            deliveryDate |-> NULL, returnDate |-> NULL]}

DDThresholds == {<<>>, <<0>>, <<150>>}

NextDD ==
    \/ \E n \in BlNumbers, c \in DDContainers, t \in DDThresholds : upsertDD(n, c, t)
    \/ \E n \in BlNumbers : clearDD(n)
    \/ refreshAllDD
    \/ Tick(3 * DAY, MaxTicks)

SpecDD == InitLogs /\ [][NextDD]_vars

AlertsOf(n) ==
    SelectSeq(ddEvents, LAMBDA e : e.event = "DD_ALERT" /\ e.blNumber = n)

\* C39: DD_ALERT is broadcast at most once per B/L, and only with a record
\* whose alertThresholdUsd is non-null and whose totalLiabilityUsd has
\* reached it
C39_AlertLatch ==
    \A n \in BlNumbers :
        /\ Len(AlertsOf(n)) <= 1
        /\ \A i \in 1..Len(AlertsOf(n)) :
              /\ AlertsOf(n)[i].alertThresholdUsd # NULL
              /\ AlertsOf(n)[i].totalLiabilityUsd >= AlertsOf(n)[i].alertThresholdUsd

\* after its alert a B/L was updated again while still over its threshold
C39_Witness ==
    \E n \in BlNumbers :
        \E i, j \in 1..Len(ddEvents) :
            /\ i < j
            /\ ddEvents[i].event = "DD_ALERT" /\ ddEvents[i].blNumber = n
            /\ ddEvents[i].totalLiabilityUsd > 0
            /\ ddEvents[j].event = "DD_UPDATE" /\ ddEvents[j].blNumber = n
            /\ ddEvents[j].alertThresholdUsd # NULL
            /\ ddEvents[j].totalLiabilityUsd >= ddEvents[j].alertThresholdUsd
            /\ dd[n][1].alertFired

---------------------------------------------------------------------------
(* Vessel profiles of vessels with 0 to 510 positions in the last 24 h *)

StoredCounts == 0..(PROFILE_TAKE + 10)

NextProfile == \E n \in StoredCounts : getVesselProfile(n)

SpecProfile == InitLogs /\ [][NextProfile]_vars

\* C40: the track of a profile holds at most 100 points, for every number
\* of stored positions from 1 to 500
C40_TrackAtMost100 ==
    (profile # <<>> /\ profile[1].stored \in 1..500)
    => Len(profile[1].track) <= 100

============================================================================
